---- MODULE Spec2Model ----
(***************************************************************************)
(* Verification model of the EIP-7702 delegate analysis scripts:           *)
(*   - scan-type4-authorities (.ts paginated mode and .mjs runner):        *)
(*     paginated, checkpointed scan feeding sharded address files;         *)
(*   - market-share.ts: chunked eth_getCode pass with checkpoint/resume,   *)
(*     mapWithConcurrency worker pool and the rpcCall retry loop.          *)
(*   - the shard store on its own (flushBuffers and                        *)
(*     buildUniqueAddressFileFromShards) and merge-market-share.ts;        *)
(*   - the label scripts: filter-to-labeled and relabel-by-group;          *)
(*   - eip7702: recoverAuthorityFromAuthorization with its parsers, and    *)
(*     the transaction loop of processOneResponse that calls it;           *)
(*   - parseDelegationTargetFromCode on its own;                           *)
(*   - the start of a scan: FROM_BLOCK, RESUME and the state file;         *)
(*   - the chainId and nonce items of the RLP list in the three copies of  *)
(*     recoverAuthorityFromAuthorization.                                  *)
(* One program runs per behaviour; prog says which.  The faults that are   *)
(* modelled for the long-running programs are an external process kill     *)
(* followed by a restart with RESUME=true and, for the scan under          *)
(* SpecPaging, get() calls that reject.  The scan is modelled in its       *)
(* paginated get() form (the .mjs runner and USE_PAGINATED_GET in the .ts  *)
(* script); both share the page processing and the checkpoint write.       *)
(* Signatures are ideal: recovery yields the signer exactly when r, s,     *)
(* yParity and the digest are those of the signature.                      *)
(***************************************************************************)
EXTENDS Integers, Sequences, FiniteSets, TLC

VARIABLES
    prog,          \* which script this behaviour runs
    \* ---- scan-type4-authorities ----
    variant,       \* "ts" (USE_PAGINATED_GET) or "mjs"
    pages,         \* indexer content: cursor -> authorities found in that page
    pc,            \* position of main()
    queryFrom,     \* query.fromBlock
    runStart,      \* fromBlock this process started with
    reqCursor,     \* cursor of the request issued last
    inFlight,      \* number of get() requests not yet answered
    res,           \* response being processed
    idx,           \* next authorization of res to process
    buffers,       \* BufferedWrites: shard -> buffered lines
    bufferedLines, \* bufferedLines counter
    shardFiles,    \* SHARD_DIR/<shard>.txt, durable
    stateFile,     \* STATE_FILE, durable
    outFile,       \* OUTPUT_FILE, durable
    kills,         \* number of process kills so far
    \* ---- mapWithConcurrency ----
    items,         \* items
    conc,          \* concurrency
    fnThrows,      \* indices (0-based) for which fn rejects
    results,       \* results array, slot i+1 for index i
    mnext,         \* the shared counter `next`
    wst,           \* worker -> "unborn" | "busy" | "returned" | "thrown"
    witem,         \* worker -> index it is awaiting fn for
    started,       \* number of worker() calls made
    calls,         \* index+1 -> number of fn invocations
    mapStatus,     \* Promise.all: "idle" | "pending" | "resolved" | "rejected"
    \* ---- market-share main ----
    candidates,    \* addresses: the lines of the authorities file
    codeOf,        \* candidate -> outcome of rpcCall eth_getCode
    chunkSize,     \* CHUNK_SIZE
    start,         \* loop variable of the chunk loop
    counts,        \* Map delegate -> count
    countKeys,     \* the keys of counts in insertion order
    currentlyDelegated,
    extraBytesCount,
    rpcFailures,
    nextIndex,
    ckptFile,      \* checkpointFile, durable
    report,        \* <chain>-delegate-market-share.json
    \* ---- rpcCall ----
    maxRetries,    \* RPC_MAX_RETRIES
    baseDelayMs,   \* RPC_RETRY_BASE_DELAY_MS
    maxDelayMs,    \* RPC_RETRY_MAX_DELAY_MS
    attempt,       \* loop variable
    requests,      \* number of fetch() calls made
    retries,       \* number of backoff-and-retry rounds
    slept,         \* duration of the last backoff sleep, -1 if none
    lastResp,      \* the response handled last
    only429,       \* every response so far had status 429
    \* ---- shard store (flushBuffers / buildUniqueAddressFileFromShards) ----
    totalUnique,   \* value returned by buildUniqueAddressFileFromShards
    appended,      \* every address ever pushed to a buffer
    finalized,     \* finalize runs since the last append
    \* ---- merge-market-share main ----
    repA,          \* the report at INPUT_A
    repB,          \* the report at INPUT_B
    mergedJson,    \* <outBase>.json
    mergedCsv,     \* <outBase>.csv
    \* ---- filter-to-labeled and relabel-by-group ----
    msInput,       \* ms: the market-share report at INPUT_JSON
    labelsFile,    \* labelsFile.labels: the label table at LABELS_JSON
    requireName,   \* LABEL_REQUIRE_NAME
    unlabeledMode, \* UNLABELED_MODE
    labeledJson,   \* <outBaseName>.json
    labeledCsv,    \* <outBaseName>.csv
    \* ---- processOneResponse: authority recovery per authorization ----
    txns,          \* res.data.transactions, one authorization each
    txi,           \* next transaction to process
    recoveredAuthority,
    fallbackToTxFrom,
    authLines,     \* lines pushed to the shard buffers, in order
    lineOrigin,    \* for each pushed line: how its address was obtained
    lastRecovery,  \* outcome of the last recoverAuthorityFromAuthorization
    \* ---- pagination loop: indexer behaviour and fetch failures ----
    endStyle,      \* how the indexer answers at the end of its data
    toBlock,       \* query.toBlock, 0 when unset
    fetchFails,    \* get() calls that have failed so far
    attempts,      \* attempts (consecutive failures, .ts loop)
    \* ---- history behind the candidate list (never read by market-share) ----
    named,         \* per candidate: the delegate its last scanned tuple named
    \* ---- parseDelegationTargetFromCode applied to one eth_getCode result ----
    codeIn,        \* code
    parsed,        \* the value returned
    \* ---- environment of a starting scan ----
    resumeEnv,     \* process.env.RESUME
    fromBlockEnv,  \* process.env.FROM_BLOCK
    \* ---- the RLP items of recoverAuthorityFromAuthorization ----
    recoverModule, \* which copy of the function runs
    authIn,        \* auth.chainId and auth.nonce as delivered
    rlpItems       \* bytes of chainIdRlp and nonceRlp

scanVars == <<variant, pages, pc, queryFrom, runStart, reqCursor, inFlight,
              res, idx, buffers, bufferedLines, shardFiles, stateFile,
              outFile, kills>>

mapVars == <<items, conc, fnThrows, results, mnext, wst, witem, started, calls,
             mapStatus>>

msVars == <<candidates, codeOf, chunkSize, start, counts, countKeys,
            currentlyDelegated, extraBytesCount, rpcFailures, nextIndex,
            ckptFile, report>>

rpcVars == <<maxRetries, baseDelayMs, maxDelayMs, attempt, requests, retries,
             slept, lastResp, only429>>

storeVars == <<totalUnique, appended, finalized>>

mergeVars == <<repA, repB, mergedJson, mergedCsv>>

labelVars == <<msInput, labelsFile, requireName, unlabeledMode, labeledJson,
               labeledCsv>>

authVars == <<txns, txi, recoveredAuthority, fallbackToTxFrom, authLines,
              lineOrigin, lastRecovery>>

pagingVars == <<endStyle, toBlock, fetchFails, attempts>>

histVars == <<named>>

parseVars == <<codeIn, parsed>>

startVars == <<resumeEnv, fromBlockEnv>>

rlpVars == <<recoverModule, authIn, rlpItems>>

extVars == <<labelVars, authVars, pagingVars, histVars, parseVars, startVars,
             rlpVars>>

vars == <<prog, scanVars, mapVars, msVars, rpcVars, mergeVars, extVars, storeVars>>

\* ---------------------------------------------------------------- bounds
NumPages == 2
MaxAuths == 2
MaxAddr == 2
MaxKills == 1
MaxItems == 3
MaxItemVal == 2
NumCand == 3
MaxRetriesBound == 2
MaxAppends == 3
MaxRows == 2
MaxLabels == 2
MaxTxns == 2
MaxFetchFails == 2

\* ---------------------------------------------------- program constants
\* FLUSH_THRESHOLD is 20_000 in the source; scaled to MaxAuths.
FLUSH_THRESHOLD == 2
\* Addresses are numbers (the value of the lowercase hex string); the shard
\* key is the leading part of the address.
ShardSpan == 2
FromBlock == 1

Addr == 0..MaxAddr
ArchiveHeight == FromBlock + NumPages
Cursors == FromBlock..ArchiveHeight

Min(a, b) == IF a < b THEN a ELSE b
Max(a, b) == IF a > b THEN a ELSE b

SeqsUpTo(S, n) == UNION {[1..k -> S] : k \in 0..n}
Range(s) == {s[i] : i \in 1..Len(s)}

\* ------------------------------------------------------------ shard store
shardForAddress(a) == a \div ShardSpan
Shards == {shardForAddress(a) : a \in Addr}
EmptyShards == [s \in Shards |-> <<>>]


\* Bug variant: a flush replaces the shard file instead of appending to it.
flushBuffers_Overwrite(files, bufs) ==
    [s \in Shards |-> IF bufs[s] = <<>> THEN files[s] ELSE bufs[s]]

\* flushBuffers: append every non-empty buffer to its shard file, then clear.
flushBuffers(files, bufs) == [s \in Shards |-> files[s] \o bufs[s]]

RECURSIVE SortedSeq(_)
SortedSeq(S) ==
    IF S = {} THEN <<>>
    ELSE LET m == CHOOSE x \in S : \A y \in S : x <= y
         IN <<m>> \o SortedSeq(S \ {m})

RECURSIVE ConcatShards(_, _)
ConcatShards(files, s) ==
    IF s > shardForAddress(MaxAddr) THEN <<>>
    ELSE (IF s \in Shards THEN SortedSeq(Range(files[s])) ELSE <<>>)
         \o ConcatShards(files, s + 1)

\* The shard files as they are, one after the other.
RECURSIVE RawShards(_, _)
RawShards(files, s) ==
    IF s > shardForAddress(MaxAddr) THEN <<>>
    ELSE (IF s \in Shards THEN files[s] ELSE <<>>) \o RawShards(files, s + 1)

\* Bug variant: the lines of a shard are written out without `new Set`.
buildUniqueAddressFileFromShards_NoDedup(files) == RawShards(files, 0)

\* buildUniqueAddressFileFromShards: shards in key order, each deduplicated
\* and sorted, concatenated into the output file.
buildUniqueAddressFileFromShards(files) == ConcatShards(files, 0)

\* Bug variant: the output file is not emptied before the shards are appended.
truncateFile_Keep(prev) == prev

\* writeFileSync(outFile, "")
truncateFile(prev) == <<>>

\* The output file after buildUniqueAddressFileFromShards ran over a file
\* that already held prev.
writeOutput(prev, files) == truncateFile(prev) \o buildUniqueAddressFileFromShards(files)

\* totalUnique: the sum of uniq.length over the shards.
RECURSIVE countUnique(_, _)
countUnique(files, s) ==
    IF s > shardForAddress(MaxAddr) THEN 0
    ELSE (IF s \in Shards THEN Cardinality(Range(files[s])) ELSE 0)
         + countUnique(files, s + 1)

\* ------------------------------------------------------------ checkpoint
NoFile == [kind |-> "absent"]
TornFile == [kind |-> "torn"]
ScanState(n) == [kind |-> "json", nextBlock |-> n]

\* RESUME block: the cursor main() starts from.
ResumeFromBlock(file) ==
    IF file.kind = "json" /\ file.nextBlock > 0 THEN file.nextBlock
    ELSE FromBlock

\* The indexer's answer to get(query) for query.fromBlock = c: one page per
\* cursor; at or beyond the archive height there is nothing more to return.
IndexerResponse(pg, c) ==
    IF c < ArchiveHeight
    THEN [auths |-> pg[c], nextBlock |-> c + 1, archiveHeight |-> ArchiveHeight]
    ELSE [auths |-> <<>>, nextBlock |-> c, archiveHeight |-> ArchiveHeight]

\* Indexer contents: at most MaxAuths authorizations over the whole range.
RECURSIVE TotalLen(_, _)
TotalLen(pg, c) == IF c >= ArchiveHeight THEN 0 ELSE Len(pg[c]) + TotalLen(pg, c + 1)

PageLayouts ==
    {pg \in [FromBlock..(ArchiveHeight - 1) -> SeqsUpTo(Addr, MaxAuths)] :
        TotalLen(pg, FromBlock) <= MaxAuths}

NoRes == [auths |-> <<>>, nextBlock |-> 0, archiveHeight |-> 0]

\* The block the indexer's data for this query ends before: the archive
\* height, or query.toBlock when that is set and lower.
dataEnd(tb) == IF tb # 0 THEN Min(tb, ArchiveHeight) ELSE ArchiveHeight

\* The answer to get(query) of an indexer that marks the end of the data
\* either by nextBlock reaching the end ("height") or by leaving nextBlock
\* out of the last response ("noCursor").
PagedResponse(pg, c, style, tb) ==
    IF style = "noCursor" /\ c >= dataEnd(tb) - 1
    THEN [auths |-> IF c < dataEnd(tb) THEN pg[c] ELSE <<>>, nextBlock |-> 0,
          archiveHeight |-> ArchiveHeight]
    ELSE IF c < dataEnd(tb)
    THEN [auths |-> pg[c], nextBlock |-> c + 1, archiveHeight |-> ArchiveHeight]
    ELSE IndexerResponse(pg, c)

\* ------------------------------------------- state of a program not run
Workers == 1..Max(1, Max(MaxItems, NumCand))


NoCounts == <<>>

IdleMap ==
    /\ items = <<>> /\ fnThrows = {} /\ results = <<>> /\ mnext = 0
    /\ wst = [w \in Workers |-> "unborn"] /\ witem = [w \in Workers |-> -1]
    /\ started = 0 /\ calls = <<>> /\ mapStatus = "idle"

IdleMs ==
    /\ candidates = <<>> /\ codeOf = <<>> /\ chunkSize = 0 /\ start = 0
    /\ counts = NoCounts /\ countKeys = <<>>
    /\ currentlyDelegated = 0 /\ extraBytesCount = 0 /\ rpcFailures = 0
    /\ nextIndex = 0 /\ ckptFile = NoFile /\ report = NoFile

NoResp == [status |-> 0, hasError |-> FALSE, msg |-> <<>>]

IdleRpc ==
    /\ maxRetries = 0 /\ baseDelayMs = 0 /\ maxDelayMs = 0 /\ attempt = 0
    /\ requests = 0 /\ retries = 0 /\ slept = -1 /\ lastResp = NoResp
    /\ only429 = TRUE

IdleStore == totalUnique = 0 /\ appended = {} /\ finalized = 0

IdleMerge == repA = <<>> /\ repB = <<>> /\ mergedJson = NoFile /\ mergedCsv = NoFile

IdleLabel ==
    /\ msInput = <<>> /\ labelsFile = <<>> /\ requireName = FALSE
    /\ unlabeledMode = "none" /\ labeledJson = NoFile /\ labeledCsv = NoFile

IdleAuth ==
    /\ txns = <<>> /\ txi = 1 /\ recoveredAuthority = 0 /\ fallbackToTxFrom = 0
    /\ authLines = <<>> /\ lineOrigin = <<>> /\ lastRecovery = <<>>

\* The indexer and query of the basic scan: the end of the data shows as
\* nextBlock reaching archiveHeight, TO_BLOCK is unset, get() does not fail.
IdlePaging == endStyle = "height" /\ toBlock = 0 /\ fetchFails = 0 /\ attempts = 0

IdleHist == named = <<>>

IdleParse == codeIn = <<>> /\ parsed = <<>>

\* FROM_BLOCK: unset, or a number.
NotGiven == [given |-> FALSE, n |-> 0]
Given(n) == [given |-> TRUE, n |-> n]

IdleStart == resumeEnv = "true" /\ fromBlockEnv = NotGiven

IdleRlp == recoverModule = "none" /\ authIn = <<>> /\ rlpItems = <<>>

IdleExt ==
    /\ IdleLabel /\ IdleAuth /\ IdlePaging /\ IdleHist /\ IdleParse /\ IdleStart
    /\ IdleRlp

IdleScanState ==
    /\ pages = <<>> /\ queryFrom = 0 /\ runStart = 0
    /\ reqCursor = 0 /\ inFlight = 0 /\ res = NoRes /\ idx = 1
    /\ buffers = EmptyShards /\ bufferedLines = 0 /\ shardFiles = EmptyShards
    /\ stateFile = NoFile /\ outFile = <<>>

IdleScan == variant = "none" /\ IdleScanState

\* ------------------------------------------------------------------ scan
InitScan ==
    /\ prog = "scan"
    /\ variant \in {"ts", "mjs"}
    /\ pages \in PageLayouts
    /\ pc = "positioned"
    /\ queryFrom = FromBlock
    /\ runStart = FromBlock
    /\ reqCursor = 0
    /\ inFlight = 0
    /\ res = NoRes
    /\ idx = 1
    /\ buffers = EmptyShards
    /\ bufferedLines = 0
    /\ shardFiles = EmptyShards
    /\ stateFile = NoFile
    /\ outFile = <<>>
    /\ kills = 0
    /\ conc = 0 /\ IdleMap /\ IdleMs /\ IdleRpc /\ IdleStore /\ IdleMerge
    /\ IdleExt

\* Lines pushed so far: those in the shard files and those still buffered.
RECURSIVE linesFrom(_)
linesFrom(s) ==
    IF s > shardForAddress(MaxAddr) THEN 0
    ELSE (IF s \in Shards THEN Len(shardFiles[s]) + Len(buffers[s]) ELSE 0)
         + linesFrom(s + 1)

TotalLines == linesFrom(0)

\* A run is followed until its shard files hold more lines than a scan that
\* is killed MaxKills times can write; only a scan that keeps fetching the
\* same page gets that far.
MaxShardLines == MaxAuths * (MaxKills + 2)

\* await hypersyncClient.get(query): the request leaves.
Request ==
    /\ prog = "scan" /\ pc = "positioned"
    /\ TotalLines <= MaxShardLines
    /\ pc' = "fetching"
    /\ reqCursor' = queryFrom
    /\ inFlight' = inFlight + 1
    /\ UNCHANGED <<mapVars, msVars, rpcVars, mergeVars, extVars, storeVars>>
    /\ UNCHANGED <<prog, variant, pages, queryFrom, runStart, res, idx, buffers,
                   bufferedLines, shardFiles, stateFile, outFile, kills>>

\* get() resolves with the page.
Respond ==
    /\ prog = "scan" /\ pc = "fetching"
    /\ res' = PagedResponse(pages, reqCursor, endStyle, toBlock)
    /\ idx' = 1
    /\ inFlight' = inFlight - 1
    /\ attempts' = 0
    /\ pc' = "processing"
    /\ UNCHANGED <<mapVars, msVars, rpcVars, mergeVars, storeVars>>
    /\ UNCHANGED <<labelVars, authVars, histVars, parseVars, startVars, rlpVars,
                 endStyle, toBlock, fetchFails>>
    /\ UNCHANGED <<prog, variant, pages, queryFrom, runStart, reqCursor, buffers,
                   bufferedLines, shardFiles, stateFile, outFile, kills>>

\* One iteration of `for (const auth of authList)`: buffer the authority and
\* flush all buffers once FLUSH_THRESHOLD lines are buffered.
appendAuthority(a) ==
    LET s == shardForAddress(a)
        bufs == [buffers EXCEPT ![s] = Append(@, a)]
        n == bufferedLines + 1
    IN IF n >= FLUSH_THRESHOLD
       THEN /\ shardFiles' = flushBuffers(shardFiles, bufs)
            /\ buffers' = EmptyShards
            /\ bufferedLines' = 0
       ELSE /\ buffers' = bufs
            /\ bufferedLines' = n
            /\ shardFiles' = shardFiles

ProcessAuth ==
    /\ prog = "scan" /\ pc = "processing"
    /\ idx <= Len(res.auths)
    /\ appendAuthority(res.auths[idx])
    /\ idx' = idx + 1
    /\ UNCHANGED <<mapVars, msVars, rpcVars, mergeVars, extVars, storeVars>>
    /\ UNCHANGED <<prog, variant, pages, pc, queryFrom, runStart, reqCursor,
                   inFlight, res, stateFile, outFile, kills>>


\* Bug variant: the loop goes on without writing the checkpoint.
EndPage_SkipCheckpoint ==
    /\ prog = "scan" /\ pc = "processing"
    /\ idx > Len(res.auths)
    /\ queryFrom' = IF res.nextBlock # 0 THEN res.nextBlock ELSE queryFrom
    /\ pc' = "written"
    /\ UNCHANGED <<mapVars, msVars, rpcVars, mergeVars, extVars, storeVars>>
    /\ UNCHANGED <<prog, variant, pages, runStart, reqCursor, inFlight, res, idx,
                   buffers, bufferedLines, shardFiles, stateFile, outFile, kills>>

\* After the transaction loop: `if (res.nextBlock) query.fromBlock = ...`.
EndPage ==
    /\ prog = "scan" /\ pc = "processing"
    /\ idx > Len(res.auths)
    /\ queryFrom' = IF res.nextBlock # 0 THEN res.nextBlock ELSE queryFrom
    /\ pc' = IF res.nextBlock # 0 THEN "checkpoint" ELSE "written"
    /\ UNCHANGED <<mapVars, msVars, rpcVars, mergeVars, extVars, storeVars>>
    /\ UNCHANGED <<prog, variant, pages, runStart, reqCursor, inFlight, res, idx,
                   buffers, bufferedLines, shardFiles, stateFile, outFile, kills>>

\* writeFileSync(STATE_FILE, ...) opens the file with O_TRUNC ...
\* (A write that throws is swallowed by the surrounding try/catch; file-system
\* errors are not part of the fault model, only process kills are.)
BeginStateWrite ==
    /\ prog = "scan" /\ pc = "checkpoint"
    /\ stateFile' = TornFile
    /\ pc' = "writing"
    /\ UNCHANGED <<mapVars, msVars, rpcVars, mergeVars, extVars, storeVars>>
    /\ UNCHANGED <<prog, variant, pages, queryFrom, runStart, reqCursor, inFlight,
                   res, idx, buffers, bufferedLines, shardFiles, outFile, kills>>

\* ... and then writes the JSON text.
writtenState(r) == ScanState(r.nextBlock)

EndStateWrite ==
    /\ prog = "scan" /\ pc = "writing"
    /\ stateFile' = writtenState(res)
    /\ pc' = "written"
    /\ UNCHANGED <<mapVars, msVars, rpcVars, mergeVars, extVars, storeVars>>
    /\ UNCHANGED <<prog, variant, pages, queryFrom, runStart, reqCursor, inFlight,
                   res, idx, buffers, bufferedLines, shardFiles, outFile, kills>>

\* Loop exit tests after processOneResponse.
scanStops(r) ==
    \/ variant = "ts" /\ r.nextBlock = 0
    \/ r.archiveHeight # 0 /\ r.nextBlock >= r.archiveHeight
    \/ toBlock # 0 /\ r.nextBlock >= toBlock

NextPageOrStop ==
    /\ prog = "scan" /\ pc = "written"
    /\ pc' = IF scanStops(res) THEN "finalize" ELSE "positioned"
    /\ UNCHANGED <<mapVars, msVars, rpcVars, mergeVars, extVars, storeVars>>
    /\ UNCHANGED <<prog, variant, pages, queryFrom, runStart, reqCursor, inFlight,
                   res, idx, buffers, bufferedLines, shardFiles, stateFile,
                   outFile, kills>>

\* flushBuffers(SHARD_DIR, buffers); buildUniqueAddressFileFromShards(...).
Finalize ==
    /\ prog = "scan" /\ pc = "finalize"
    /\ shardFiles' = flushBuffers(shardFiles, buffers)
    /\ buffers' = EmptyShards
    /\ outFile' = writeOutput(outFile, shardFiles')
    /\ totalUnique' = countUnique(shardFiles', 0)
    /\ pc' = "done"
    /\ UNCHANGED <<mapVars, msVars, rpcVars, mergeVars, extVars, appended, finalized>>
    /\ UNCHANGED <<prog, variant, pages, queryFrom, runStart, reqCursor, inFlight,
                   res, idx, bufferedLines, stateFile, kills>>

\* External process kill: everything in memory is gone, files stay.
KillScan ==
    /\ prog = "scan" /\ pc \notin {"done", "dead", "failed"}
    /\ kills < MaxKills
    /\ kills' = kills + 1
    /\ pc' = "dead"
    /\ buffers' = EmptyShards
    /\ bufferedLines' = 0
    /\ res' = NoRes
    /\ idx' = 1
    /\ inFlight' = 0
    /\ reqCursor' = 0
    /\ attempts' = 0
    /\ UNCHANGED <<mapVars, msVars, rpcVars, mergeVars, storeVars>>
    /\ UNCHANGED <<labelVars, authVars, histVars, parseVars, startVars, rlpVars,
                 endStyle, toBlock, fetchFails>>
    /\ UNCHANGED <<prog, variant, pages, queryFrom, runStart, shardFiles,
                   stateFile, outFile>>

\* A new process with RESUME=true: main() up to the pagination loop.
RestartScan ==
    /\ prog = "scan" /\ pc = "dead"
    /\ queryFrom' = ResumeFromBlock(stateFile)
    /\ runStart' = ResumeFromBlock(stateFile)
    /\ pc' = "positioned"
    /\ UNCHANGED <<mapVars, msVars, rpcVars, mergeVars, extVars, storeVars>>
    /\ UNCHANGED <<prog, variant, pages, reqCursor, inFlight, res, idx, buffers,
                   bufferedLines, shardFiles, stateFile, outFile, kills>>

\* ------------------------------------------------- the start of a scan
\* main() from the environment to the first get(): FROM_BLOCK, RESUME and
\* the state file as the process finds them.
ResumeValues == {"true", "TRUE", "unset"}
ExplicitStarts == (FromBlock + 1)..ArchiveHeight
\* A state file that parses but holds no numeric nextBlock.
OtherJson == [kind |-> "other"]
StartStateFiles ==
    {NoFile, TornFile, OtherJson, ScanState(0)} \cup {ScanState(n) : n \in Cursors}

\* fromBlockRaw ? Number(fromBlockRaw) : DEFAULT_FROM_BLOCK
fromBlockOf(env) == IF env.given THEN env.n ELSE FromBlock

\* Bug variant: the state file is used whatever RESUME says.
startFromBlock_IgnoresFlag(resume, env, file) ==
    IF file.kind = "json" /\ file.nextBlock > 0
    THEN file.nextBlock
    ELSE fromBlockOf(env)

\* The RESUME block: state.nextBlock replaces fromBlock when RESUME is
\* "true", the file parses and nextBlock is a positive number.
startFromBlock(resume, env, file) ==
    IF resume = "true" /\ file.kind = "json" /\ file.nextBlock > 0
    THEN file.nextBlock
    ELSE fromBlockOf(env)

InitStart ==
    /\ prog = "scan"
    /\ variant \in {"ts", "mjs"}
    /\ pages \in PageLayouts
    /\ pc = "starting"
    /\ queryFrom = 0
    /\ runStart = 0
    /\ reqCursor = 0
    /\ inFlight = 0
    /\ res = NoRes
    /\ idx = 1
    /\ buffers = EmptyShards
    /\ bufferedLines = 0
    /\ shardFiles = EmptyShards
    /\ stateFile \in StartStateFiles
    /\ outFile = <<>>
    /\ kills = 0
    /\ resumeEnv \in ResumeValues
    /\ fromBlockEnv \in {NotGiven} \cup {Given(n) : n \in ExplicitStarts}
    /\ conc = 0 /\ IdleMap /\ IdleMs /\ IdleRpc /\ IdleStore /\ IdleMerge
    /\ IdleLabel /\ IdleAuth /\ IdlePaging /\ IdleHist /\ IdleParse /\ IdleRlp

\* main() up to the query object: query.fromBlock = fromBlock.
StartScan ==
    /\ prog = "scan" /\ pc = "starting"
    /\ queryFrom' = startFromBlock(resumeEnv, fromBlockEnv, stateFile)
    /\ runStart' = startFromBlock(resumeEnv, fromBlockEnv, stateFile)
    /\ pc' = "positioned"
    /\ UNCHANGED <<mapVars, msVars, rpcVars, mergeVars, extVars, storeVars>>
    /\ UNCHANGED <<prog, variant, pages, reqCursor, inFlight, res, idx, buffers,
                   bufferedLines, shardFiles, stateFile, outFile, kills>>

NextStart == StartScan \/ Request

\* ------------------------------------------------------------ shard store
\* The shard store on its own: addresses are buffered in any order, buffers
\* are flushed at any time, and the flush-and-build of the end of main() may
\* run again over the same shard directory.
StaleOutput == <<MaxAddr, 0>>


InitStore ==
    /\ prog = "store" /\ pc = "store" /\ kills = 0
    /\ variant = "none" /\ pages = <<>> /\ queryFrom = 0 /\ runStart = 0
    /\ reqCursor = 0 /\ inFlight = 0 /\ res = NoRes /\ idx = 1
    /\ buffers = EmptyShards /\ bufferedLines = 0 /\ shardFiles = EmptyShards
    /\ stateFile = NoFile
    /\ outFile \in {<<>>, StaleOutput}
    /\ totalUnique = 0 /\ appended = {} /\ finalized = 0
    /\ conc = 0 /\ IdleMap /\ IdleMs /\ IdleRpc /\ IdleMerge
    /\ IdleExt

\* buffers.get(shard).push(authority + "\n"); bufferedLines++; flush at the
\* threshold.
StoreAppend(a) ==
    /\ prog = "store" /\ TotalLines < MaxAppends
    /\ appendAuthority(a)
    /\ appended' = appended \cup {a}
    /\ finalized' = 0
    /\ UNCHANGED <<mapVars, msVars, rpcVars, mergeVars, extVars, totalUnique>>
    /\ UNCHANGED <<prog, variant, pages, pc, queryFrom, runStart, reqCursor,
                   inFlight, res, idx, stateFile, outFile, kills>>

\* flushBuffers(SHARD_DIR, buffers); bufferedLines = 0, at any time.
StoreFlush ==
    /\ prog = "store" /\ bufferedLines > 0
    /\ shardFiles' = flushBuffers(shardFiles, buffers)
    /\ buffers' = EmptyShards
    /\ bufferedLines' = 0
    /\ UNCHANGED <<mapVars, msVars, rpcVars, mergeVars, extVars, storeVars>>
    /\ UNCHANGED <<prog, variant, pages, pc, queryFrom, runStart, reqCursor,
                   inFlight, res, idx, stateFile, outFile, kills>>

\* flushBuffers(SHARD_DIR, buffers); buildUniqueAddressFileFromShards(...).
StoreFinalize ==
    /\ prog = "store" /\ finalized < 2
    /\ shardFiles' = flushBuffers(shardFiles, buffers)
    /\ buffers' = EmptyShards
    /\ outFile' = writeOutput(outFile, shardFiles')
    /\ totalUnique' = countUnique(shardFiles', 0)
    /\ finalized' = finalized + 1
    /\ UNCHANGED <<mapVars, msVars, rpcVars, mergeVars, extVars, appended>>
    /\ UNCHANGED <<prog, variant, pages, pc, queryFrom, runStart, reqCursor,
                   inFlight, res, idx, bufferedLines, stateFile, kills>>

NextStore == (\E a \in Addr : StoreAppend(a)) \/ StoreFlush \/ StoreFinalize

NextScan ==
    \/ Request \/ Respond \/ ProcessAuth \/ EndPage
    \/ BeginStateWrite \/ EndStateWrite \/ NextPageOrStop \/ Finalize
    \/ KillScan \/ RestartScan



\* Bug variant: the pool size ignores the number of items.
workerCount_IgnoreLength(its, c) == Max(1, c)

\* ---------------------------------------------------- mapWithConcurrency
\* Array.from({ length: Math.max(1, Math.min(concurrency, items.length)) })
workerCount(its, c) == Max(1, Min(c, Len(its)))

\* The synchronous part of mapWithConcurrency: the results array, then one
\* worker() call per pool slot, each running up to its first await
\* (`const i = next++; if (i >= items.length) return; ... await fn(...)`).
startWorkers(its, c, unset) ==
    LET n == workerCount(its, c) IN
    /\ items' = its
    /\ results' = [i \in 1..Len(its) |-> unset]
    /\ mnext' = n
    /\ started' = n
    /\ wst' = [w \in Workers |->
                 IF w > n THEN "unborn"
                 ELSE IF w - 1 >= Len(its) THEN "returned" ELSE "busy"]
    /\ witem' = [w \in Workers |-> IF w <= n /\ w - 1 < Len(its) THEN w - 1 ELSE -1]
    /\ calls' = [i \in 1..Len(its) |-> IF i <= n THEN 1 ELSE 0]
    /\ mapStatus' = "pending"


\* Bug variant: results are stored in completion order.
resultSlot_CompletionOrder(w) == mnext - started + 1

\* Slot a worker writes the awaited value into.
resultSlot(w) == witem[w] + 1

\* Bug variant: each worker steps from its own last index instead of taking
\* the shared counter.
workerResume_OwnIndex(w, v) ==
    LET j == witem[w] + 1 IN
    /\ results' = [results EXCEPT ![resultSlot(w)] = v]
    /\ mnext' = mnext + 1
    /\ IF j >= Len(items)
       THEN /\ wst' = [wst EXCEPT ![w] = "returned"]
            /\ witem' = [witem EXCEPT ![w] = -1]
            /\ calls' = calls
       ELSE /\ wst' = wst
            /\ witem' = [witem EXCEPT ![w] = j]
            /\ calls' = [calls EXCEPT ![j + 1] = @ + 1]
    /\ UNCHANGED <<items, started, mapStatus>>

\* worker(): the continuation after `await fn(items[i], i)` resolved with v:
\* store it, claim the next index, return or call fn again.
workerResume(w, v) ==
    LET j == mnext IN
    /\ results' = [results EXCEPT ![resultSlot(w)] = v]
    /\ mnext' = mnext + 1
    /\ IF j >= Len(items)
       THEN /\ wst' = [wst EXCEPT ![w] = "returned"]
            /\ witem' = [witem EXCEPT ![w] = -1]
            /\ calls' = calls
       ELSE /\ wst' = wst
            /\ witem' = [witem EXCEPT ![w] = j]
            /\ calls' = [calls EXCEPT ![j + 1] = @ + 1]
    /\ UNCHANGED <<items, started, mapStatus>>

\* worker(): fn rejected; the worker's promise rejects, which rejects
\* Promise.all; nothing stops the other workers.
workerThrow(w) ==
    /\ wst' = [wst EXCEPT ![w] = "thrown"]
    /\ witem' = [witem EXCEPT ![w] = -1]
    /\ mapStatus' = IF mapStatus = "pending" THEN "rejected" ELSE mapStatus
    /\ UNCHANGED <<items, results, mnext, started, calls>>

allReturned == \A w \in Workers : w <= started => wst[w] = "returned"

\* The stand-alone pool, with an fn that may reject.
fnValue(item, i) == 10 * item + i + 1
Unset == 0

InitMap ==
    /\ prog = "map"
    /\ items \in SeqsUpTo(1..MaxItemVal, MaxItems)
    /\ conc \in 0..(Len(items) + 10)
    /\ fnThrows \in SUBSET (0..(Len(items) - 1))
    /\ results = <<>> /\ mnext = 0
    /\ wst = [w \in Workers |-> "unborn"] /\ witem = [w \in Workers |-> -1]
    /\ started = 0 /\ calls = <<>> /\ mapStatus = "idle"
    /\ pc = "map" /\ kills = 0 /\ IdleScan /\ IdleMs /\ IdleRpc /\ IdleStore /\ IdleMerge
    /\ IdleExt

MapCall ==
    /\ prog = "map" /\ mapStatus = "idle"
    /\ startWorkers(items, conc, Unset)
    /\ UNCHANGED <<prog, conc, fnThrows, scanVars, msVars, rpcVars, mergeVars, extVars, storeVars>>

MapFnReturn(w) ==
    /\ prog = "map" /\ wst[w] = "busy" /\ witem[w] \notin fnThrows
    /\ workerResume(w, fnValue(items[witem[w] + 1], witem[w]))
    /\ UNCHANGED <<prog, conc, fnThrows, scanVars, msVars, rpcVars, mergeVars, extVars, storeVars>>

MapFnThrow(w) ==
    /\ prog = "map" /\ wst[w] = "busy" /\ witem[w] \in fnThrows
    /\ workerThrow(w)
    /\ UNCHANGED <<prog, conc, fnThrows, scanVars, msVars, rpcVars, mergeVars, extVars, storeVars>>

\* await Promise.all(workers); return results
MapResolve ==
    /\ prog = "map" /\ mapStatus = "pending" /\ allReturned
    /\ mapStatus' = "resolved"
    /\ UNCHANGED <<prog, items, conc, fnThrows, results, mnext, wst, witem,
                   started, calls, scanVars, msVars, rpcVars, mergeVars, extVars, storeVars>>

NextMap ==
    \/ MapCall
    \/ \E w \in Workers : MapFnReturn(w)
    \/ \E w \in Workers : MapFnThrow(w)
    \/ MapResolve

\* ------------------------------------------------------ market-share.ts
\* Strings are sequences of one-character strings.
UpperChars == <<"A", "B", "C", "D", "E", "F", "G", "H", "I", "J", "K", "L", "M",
               "N", "O", "P", "Q", "R", "S", "T", "U", "V", "W", "X", "Y", "Z">>
LowerChars == <<"a", "b", "c", "d", "e", "f", "g", "h", "i", "j", "k", "l", "m",
               "n", "o", "p", "q", "r", "s", "t", "u", "v", "w", "x", "y", "z">>

lowerChar(ch) ==
    IF \E k \in 1..Len(UpperChars) : UpperChars[k] = ch
    THEN LowerChars[CHOOSE k \in 1..Len(UpperChars) : UpperChars[k] = ch]
    ELSE ch

toLowerCase(str) == [i \in 1..Len(str) |-> lowerChar(str[i])]
startsWith(str, pre) == Len(str) >= Len(pre) /\ SubSeq(str, 1, Len(pre)) = pre
Rep(ch, n) == [i \in 1..n |-> ch]

EIP7702_PREFIX == <<"0", "x", "e", "f", "0", "1", "0", "0">>
AddrHexLen == 40
Undefined == <<>>

\* Bug variant: the marker is compared and the address cut as written.
parseDelegationTargetFromCode_CaseSensitive(code) ==
    LET c == code
        rest == SubSeq(c, Len(EIP7702_PREFIX) + 1, Len(c))
    IN IF ~startsWith(c, EIP7702_PREFIX)
       THEN [delegate |-> Undefined, hasExtraBytes |-> FALSE]
       ELSE IF Len(rest) < AddrHexLen
       THEN [delegate |-> Undefined, hasExtraBytes |-> FALSE]
       ELSE [delegate |-> <<"0", "x">> \o SubSeq(rest, 1, AddrHexLen),
             hasExtraBytes |-> Len(rest) # AddrHexLen]

parseDelegationTargetFromCode(code) ==
    LET c == toLowerCase(code)
        rest == SubSeq(c, Len(EIP7702_PREFIX) + 1, Len(c))
    IN IF ~startsWith(c, EIP7702_PREFIX)
       THEN [delegate |-> Undefined, hasExtraBytes |-> FALSE]
       ELSE IF Len(rest) < AddrHexLen
       THEN [delegate |-> Undefined, hasExtraBytes |-> FALSE]
       ELSE [delegate |-> <<"0", "x">> \o SubSeq(rest, 1, AddrHexLen),
             hasExtraBytes |-> Len(rest) # AddrHexLen]

\* eth_getCode answers used as inputs: no code, a designator written in
\* upper case, a designator followed by one extra byte.
CodeEmpty == <<"0", "x">>
CodeD1Upper == <<"0", "x", "E", "F", "0", "1", "0", "0">> \o Rep("A", AddrHexLen)
CodeD2Extra == EIP7702_PREFIX \o Rep("b", AddrHexLen) \o <<"0", "0">>
RpcFail == <<"throw">>
Outcomes == {RpcFail, CodeEmpty, CodeD1Upper, CodeD2Extra}

\* The authorities file as parseAddressesFile returns it: every candidate
\* once and in order, or out of order with one address listed twice.
CandidateFiles ==
    {[i \in 1..NumCand |-> i], [i \in 1..NumCand |-> IF i = 1 THEN NumCand ELSE i]}

\* Bug variant: the candidate list is used as read, duplicates included.
uniqueAddresses_NoDedup == candidates

\* uniqueAddresses: Array.from(new Set(addresses)).sort()
uniqueAddresses == SortedSeq(Range(candidates))

countsSet(m, d) == IF d \in DOMAIN m THEN [m EXCEPT ![d] = @ + 1] ELSE m @@ (d :> 1)

\* `for (const d of delegates) { if (!d) continue; ... }`
RECURSIVE tally(_, _, _)
tally(m, ds, k) ==
    IF k > Len(ds) THEN m
    ELSE tally(IF ds[k] = Undefined THEN m ELSE countsSet(m, ds[k]), ds, k + 1)

\* Bug variant: every result of the chunk is counted as a delegation.
delegatedIn_CountAll(ds) == Len(ds)

\* currentlyDelegated++ for each defined d
delegatedIn(ds) == Cardinality({k \in 1..Len(ds) : ds[k] # Undefined})

\* counts.set(d, ...) puts a new key after the keys already in the Map.
RECURSIVE tallyKeys(_, _, _)
tallyKeys(keys, ds, k) ==
    IF k > Len(ds) THEN keys
    ELSE tallyKeys(IF ds[k] = Undefined \/ ds[k] \in Range(keys) THEN keys
                   ELSE Append(keys, ds[k]), ds, k + 1)

\* counts: Object.fromEntries(counts.entries()) keeps the insertion order.
Checkpoint(ni, m, keys, cd, eb, rf) ==
    [kind |-> "json", nextIndex |-> ni, counts |-> m, keys |-> keys,
     currentlyDelegated |-> cd, extraBytesCount |-> eb, rpcFailures |-> rf]


\* Bug variant: the resume block restores the counters but not the position.
resumeNextIndex_Zero(f) == 0

\* What the RESUME block restores from the checkpoint file.
resumeNextIndex(f) == IF f.kind = "json" /\ f.nextIndex >= 0 THEN f.nextIndex ELSE 0
resumeCounts(f) ==
    IF f.kind = "json"
    THEN [d \in {k \in DOMAIN f.counts : f.counts[k] > 0} |-> f.counts[d]]
    ELSE NoCounts
resumeKeys(f) ==
    IF f.kind = "json"
    THEN SelectSeq(f.keys, LAMBDA d : f.counts[d] > 0)
    ELSE <<>>
resumeDelegated(f) == IF f.kind = "json" THEN f.currentlyDelegated ELSE 0
resumeExtra(f) == IF f.kind = "json" THEN f.extraBytesCount ELSE 0
resumeFailures(f) == IF f.kind = "json" THEN f.rpcFailures ELSE 0

InitMs ==
    /\ prog = "ms"
    /\ candidates \in CandidateFiles
    /\ codeOf \in [Range(candidates) -> Outcomes]
    /\ chunkSize \in 1..NumCand
    /\ conc \in 1..2
    /\ pc = "loop" /\ kills = 0
    /\ start = 0 /\ counts = NoCounts /\ countKeys = <<>>
    /\ currentlyDelegated = 0
    /\ extraBytesCount = 0 /\ rpcFailures = 0 /\ nextIndex = 0
    /\ ckptFile = NoFile /\ report = NoFile
    /\ fnThrows = {} /\ IdleMap /\ IdleScan /\ IdleRpc /\ IdleStore /\ IdleMerge
    /\ IdleExt

chunkEnd == Min(Len(uniqueAddresses), start + chunkSize)

\* Loop head with start < length: slice the chunk and enter mapWithConcurrency.
ChunkStart ==
    /\ prog = "ms" /\ pc = "loop" /\ start < Len(uniqueAddresses)
    /\ startWorkers(SubSeq(uniqueAddresses, start + 1, chunkEnd), conc, Undefined)
    /\ pc' = "chunk"
    /\ UNCHANGED <<prog, conc, fnThrows, kills, msVars>>
    /\ UNCHANGED <<variant, pages, queryFrom, runStart, reqCursor, inFlight, res,
                   idx, buffers, bufferedLines, shardFiles, stateFile, outFile>>
    /\ UNCHANGED <<rpcVars, mergeVars, extVars, storeVars>>

\* The async callback passed to mapWithConcurrency, run to completion for the
\* item worker w is waiting on; rpcCall is taken by its outcome.
\* Bug variant: the delegate is taken from the candidate's last tuple.
fnDelegate_FromHistory(addr) ==
    IF codeOf[addr] = RpcFail THEN Undefined
    ELSE IF addr \in DOMAIN named THEN named[addr]
    ELSE parseDelegationTargetFromCode(codeOf[addr]).delegate

fnDelegate(addr) ==
    IF codeOf[addr] = RpcFail THEN Undefined
    ELSE parseDelegationTargetFromCode(codeOf[addr]).delegate

\* Bug variant: trailing bytes are never flagged.
fnExtra_NotFlagged(addr) == 0

fnExtra(addr) ==
    IF codeOf[addr] # RpcFail /\ parseDelegationTargetFromCode(codeOf[addr]).hasExtraBytes
    THEN 1 ELSE 0


\* Bug variant: a failed eth_getCode call is not counted.
fnFailed_NotCounted(addr) == 0

fnFailed(addr) == IF codeOf[addr] = RpcFail THEN 1 ELSE 0

GetCodeDone(w) ==
    /\ prog = "ms" /\ pc = "chunk" /\ wst[w] = "busy"
    /\ LET addr == items[witem[w] + 1] IN
        /\ extraBytesCount' = extraBytesCount + fnExtra(addr)
        /\ rpcFailures' = rpcFailures + fnFailed(addr)
        /\ workerResume(w, fnDelegate(addr))
    /\ UNCHANGED <<prog, conc, fnThrows, pc, kills, candidates, codeOf, chunkSize,
                   start, counts, countKeys, currentlyDelegated, nextIndex,
                   ckptFile, report>>
    /\ UNCHANGED <<variant, pages, queryFrom, runStart, reqCursor, inFlight, res,
                   idx, buffers, bufferedLines, shardFiles, stateFile, outFile>>
    /\ UNCHANGED <<rpcVars, mergeVars, extVars, storeVars>>

\* Promise.all resolved: tally the chunk and set nextIndex = end.
ChunkTally ==
    /\ prog = "ms" /\ pc = "chunk" /\ allReturned
    /\ counts' = tally(counts, results, 1)
    /\ countKeys' = tallyKeys(countKeys, results, 1)
    /\ currentlyDelegated' = currentlyDelegated + delegatedIn(results)
    /\ nextIndex' = chunkEnd
    /\ mapStatus' = "resolved"
    /\ pc' = "checkpoint"
    /\ UNCHANGED <<prog, kills, items, conc, fnThrows, results, mnext, wst, witem,
                   started, calls, candidates, codeOf, chunkSize, start,
                   extraBytesCount, rpcFailures, ckptFile, report>>
    /\ UNCHANGED <<variant, pages, queryFrom, runStart, reqCursor, inFlight, res,
                   idx, buffers, bufferedLines, shardFiles, stateFile, outFile>>
    /\ UNCHANGED <<rpcVars, mergeVars, extVars, storeVars>>

\* writeFileSync(checkpointFile, ...) opens the file with O_TRUNC ...
BeginCheckpointWrite ==
    /\ prog = "ms" /\ pc = "checkpoint"
    /\ ckptFile' = TornFile
    /\ pc' = "writing"
    /\ UNCHANGED <<prog, kills, mapVars, candidates, codeOf, chunkSize, start,
                   counts, countKeys, currentlyDelegated, extraBytesCount,
                   rpcFailures, nextIndex, report>>
    /\ UNCHANGED <<variant, pages, queryFrom, runStart, reqCursor, inFlight, res,
                   idx, buffers, bufferedLines, shardFiles, stateFile, outFile>>
    /\ UNCHANGED <<rpcVars, mergeVars, extVars, storeVars>>

writtenCheckpoint ==
    Checkpoint(nextIndex, counts, countKeys, currentlyDelegated, extraBytesCount,
               rpcFailures)

\* ... then writes the JSON text; the loop increment `start += chunkSize`.
EndCheckpointWrite ==
    /\ prog = "ms" /\ pc = "writing"
    /\ ckptFile' = writtenCheckpoint
    /\ start' = start + chunkSize
    /\ pc' = "loop"
    /\ UNCHANGED <<prog, kills, mapVars, candidates, codeOf, chunkSize, counts,
                   countKeys, currentlyDelegated, extraBytesCount, rpcFailures,
                   nextIndex, report>>
    /\ UNCHANGED <<variant, pages, queryFrom, runStart, reqCursor, inFlight, res,
                   idx, buffers, bufferedLines, shardFiles, stateFile, outFile>>
    /\ UNCHANGED <<rpcVars, mergeVars, extVars, storeVars>>

\* Array.prototype.sort is stable: an entry goes behind the entries whose
\* count is not smaller, so entries of equal count stay in insertion order.
insertByCount(ranked, d, m) ==
    LET before == {i \in 1..Len(ranked) : m[ranked[i]] >= m[d]}
        n == Cardinality(before)
    IN SubSeq(ranked, 1, n) \o <<d>> \o SubSeq(ranked, n + 1, Len(ranked))

\* Array.from(counts.entries()).sort((a, b) => b[1] - a[1])
RECURSIVE sortByCountDesc(_, _, _)
sortByCountDesc(keys, m, k) ==
    IF k = 0 THEN <<>>
    ELSE insertByCount(sortByCountDesc(keys, m, k - 1), keys[k], m)

\* A share is the quotient count / total, kept as the pair <<count, total>>.
ZeroShare == <<0, 1>>

\* Bug variant: the share is taken over all candidates.
share_OfCandidates(count, total) == <<count, Len(uniqueAddresses)>>

\* share: currentlyDelegated ? count / currentlyDelegated : 0
share(count, total) == IF total # 0 THEN <<count, total>> ELSE ZeroShare

\* top: the ranked rows of the report.
top(keys, m, total) ==
    LET sorted == sortByCountDesc(keys, m, Len(keys))
    IN [i \in 1..Len(sorted) |->
          [rank |-> i, delegate |-> sorted[i], count |-> m[sorted[i]],
           share |-> share(m[sorted[i]], total)]]

writtenReport ==
    [kind |-> "json", candidates |-> Len(uniqueAddresses),
     currentlyDelegated |-> currentlyDelegated,
     uniqueDelegates |-> Cardinality(DOMAIN counts),
     hasExtraBytesCount |-> extraBytesCount, rpcFailures |-> rpcFailures,
     delegates |-> top(countKeys, counts, currentlyDelegated)]

\* Loop head with start >= length: the report is produced.
MsFinish ==
    /\ prog = "ms" /\ pc = "loop" /\ start >= Len(uniqueAddresses)
    /\ report' = writtenReport
    /\ pc' = "done"
    /\ UNCHANGED <<prog, kills, mapVars, candidates, codeOf, chunkSize, start,
                   counts, countKeys, currentlyDelegated, extraBytesCount,
                   rpcFailures, nextIndex, ckptFile>>
    /\ UNCHANGED <<variant, pages, queryFrom, runStart, reqCursor, inFlight, res,
                   idx, buffers, bufferedLines, shardFiles, stateFile, outFile>>
    /\ UNCHANGED <<rpcVars, mergeVars, extVars, storeVars>>

\* External process kill: memory is gone, the checkpoint file stays.
KillMs ==
    /\ prog = "ms" /\ pc \notin {"done", "dead"}
    /\ kills < MaxKills
    /\ kills' = kills + 1
    /\ pc' = "dead"
    /\ items' = <<>> /\ results' = <<>> /\ mnext' = 0
    /\ wst' = [w \in Workers |-> "unborn"] /\ witem' = [w \in Workers |-> -1]
    /\ started' = 0 /\ calls' = <<>> /\ mapStatus' = "idle"
    /\ start' = 0 /\ counts' = NoCounts /\ countKeys' = <<>>
    /\ currentlyDelegated' = 0
    /\ extraBytesCount' = 0 /\ rpcFailures' = 0 /\ nextIndex' = 0
    /\ UNCHANGED <<prog, conc, fnThrows, candidates, codeOf, chunkSize, ckptFile,
                   report>>
    /\ UNCHANGED <<variant, pages, queryFrom, runStart, reqCursor, inFlight, res,
                   idx, buffers, bufferedLines, shardFiles, stateFile, outFile>>
    /\ UNCHANGED <<rpcVars, mergeVars, extVars, storeVars>>

\* Bug variant: the counters are restored but the loop starts at 0.
RestartMs_LoopFromZero ==
    /\ prog = "ms" /\ pc = "dead"
    /\ nextIndex' = resumeNextIndex(ckptFile)
    /\ start' = 0
    /\ runStart' = resumeNextIndex(ckptFile)
    /\ counts' = resumeCounts(ckptFile)
    /\ countKeys' = resumeKeys(ckptFile)
    /\ currentlyDelegated' = resumeDelegated(ckptFile)
    /\ extraBytesCount' = resumeExtra(ckptFile)
    /\ rpcFailures' = resumeFailures(ckptFile)
    /\ pc' = "loop"
    /\ UNCHANGED <<prog, kills, mapVars, candidates, codeOf, chunkSize, ckptFile,
                   report>>
    /\ UNCHANGED <<variant, pages, queryFrom, reqCursor, inFlight, res,
                   idx, buffers, bufferedLines, shardFiles, stateFile, outFile>>
    /\ UNCHANGED <<rpcVars, mergeVars, extVars, storeVars>>

\* A new process with RESUME=true: main() up to the chunk loop.
RestartMs ==
    /\ prog = "ms" /\ pc = "dead"
    /\ nextIndex' = resumeNextIndex(ckptFile)
    /\ start' = resumeNextIndex(ckptFile)
    /\ runStart' = resumeNextIndex(ckptFile)
    /\ counts' = resumeCounts(ckptFile)
    /\ countKeys' = resumeKeys(ckptFile)
    /\ currentlyDelegated' = resumeDelegated(ckptFile)
    /\ extraBytesCount' = resumeExtra(ckptFile)
    /\ rpcFailures' = resumeFailures(ckptFile)
    /\ pc' = "loop"
    /\ UNCHANGED <<prog, kills, mapVars, candidates, codeOf, chunkSize, ckptFile,
                   report>>
    /\ UNCHANGED <<variant, pages, queryFrom, reqCursor, inFlight, res,
                   idx, buffers, bufferedLines, shardFiles, stateFile, outFile>>
    /\ UNCHANGED <<rpcVars, mergeVars, extVars, storeVars>>

NextMs ==
    \/ ChunkStart
    \/ \E w \in Workers : GetCodeDone(w)
    \/ ChunkTally \/ BeginCheckpointWrite \/ EndCheckpointWrite
    \/ MsFinish \/ KillMs \/ RestartMs

\* parseDelegationTargetFromCode on its own, applied to one code string.
\* The strings: a head (the marker in either case, a near miss of it, none),
\* then the first hexLen characters of a 20-byte payload and a tail.
MaxExtraHex == 2
Heads ==
    {EIP7702_PREFIX,
     <<"0", "x", "E", "F", "0", "1", "0", "0">>,
     <<"0", "X", "e", "F", "0", "1", "0", "0">>,
     <<"0", "x", "e", "f", "0", "1">>,
     <<"0", "x", "e", "f", "0", "1", "0", "1">>,
     <<"e", "f", "0", "1", "0", "0">>,
     <<"0", "x">>,
     <<"0", "x", "6", "0", "8", "0", "6", "0", "4", "0">>}
Payloads ==
    {<<"A">> \o Rep("b", AddrHexLen - 2) \o <<"C">> \o Rep("f", MaxExtraHex),
     <<"1">> \o Rep("D", AddrHexLen - 2) \o <<"e">> \o Rep("0", MaxExtraHex)}
HexLens == {0, 2, AddrHexLen - 2, AddrHexLen - 1} \cup (AddrHexLen..(AddrHexLen + MaxExtraHex))
CodeStrings ==
    {h \o SubSeq(pl, 1, n) : h \in Heads, pl \in Payloads, n \in HexLens}

NotCalled == <<>>

InitParse ==
    /\ prog = "parse" /\ pc = "input" /\ kills = 0
    /\ codeIn \in CodeStrings
    /\ parsed = NotCalled
    /\ conc = 0 /\ fnThrows = {} /\ IdleScan /\ IdleMap /\ IdleMs /\ IdleRpc /\ IdleStore
    /\ IdleMerge /\ IdleLabel /\ IdleAuth /\ IdlePaging /\ IdleHist /\ IdleStart
    /\ IdleRlp

\* const parsed = parseDelegationTargetFromCode(code)
ParseCode ==
    /\ prog = "parse" /\ pc = "input"
    /\ parsed' = parseDelegationTargetFromCode(codeIn)
    /\ pc' = "parsed"
    /\ UNCHANGED <<prog, kills, conc, fnThrows, variant, codeIn, authVars, labelVars,
                   pagingVars, histVars, startVars, rlpVars>>
    /\ UNCHANGED <<pages, queryFrom, runStart, reqCursor, inFlight, res,
                   idx, buffers, bufferedLines, shardFiles, stateFile, outFile>>
    /\ UNCHANGED <<items, results, mnext, wst, witem, started, calls, mapStatus>>
    /\ UNCHANGED <<msVars, rpcVars, storeVars, mergeVars>>

NextParse == ParseCode

\* The same computation over a candidate list whose history is on record:
\* every candidate once signed a tuple naming some delegate.  The script
\* reads the address file only (readLines(INPUT_FILE)), one whole chunk.
HistoricalDelegates ==
    {<<"0", "x">> \o Rep("a", AddrHexLen), <<"0", "x">> \o Rep("b", AddrHexLen)}

\* Every candidate named the first delegate, every candidate the second, or
\* the two in turn.
HistoricalNamings(cands) ==
    {[a \in cands |-> <<"0", "x">> \o Rep("a", AddrHexLen)],
     [a \in cands |-> <<"0", "x">> \o Rep("b", AddrHexLen)],
     [a \in cands |-> <<"0", "x">> \o Rep(IF a % 2 = 1 THEN "a" ELSE "b", AddrHexLen)]}

InitHist ==
    /\ prog = "ms"
    /\ candidates \in CandidateFiles
    /\ codeOf \in [Range(candidates) -> Outcomes]
    /\ named \in HistoricalNamings(Range(candidates))
    /\ chunkSize = NumCand
    /\ conc \in 1..2
    /\ pc = "loop" /\ kills = 0
    /\ start = 0 /\ counts = NoCounts /\ countKeys = <<>>
    /\ currentlyDelegated = 0
    /\ extraBytesCount = 0 /\ rpcFailures = 0 /\ nextIndex = 0
    /\ ckptFile = NoFile /\ report = NoFile
    /\ fnThrows = {} /\ IdleMap /\ IdleScan /\ IdleRpc /\ IdleStore /\ IdleMerge
    /\ IdleLabel /\ IdleAuth /\ IdlePaging /\ IdleParse /\ IdleStart
    /\ IdleRlp

\* ------------------------------------------------- merge-market-share.ts
\* Bug variant: delegate addresses are compared as written.
normalizeAddress_AsIs(addr) == addr

normalizeAddress(addr) == toLowerCase(addr)

\* Delegate addresses of the input reports: X in lower and in upper case, Y.
DelegateX == <<"0", "x", "a", "b">>
DelegateXUpper == <<"0", "x", "A", "B">>
DelegateY == <<"0", "x", "c", "d">>
Null == <<>>

InputRows ==
    {[delegate |-> DelegateX, count |-> 3], [delegate |-> DelegateX, count |-> 2],
     [delegate |-> DelegateXUpper, count |-> 2], [delegate |-> DelegateY, count |-> 5]}

RECURSIVE sumRowCounts(_, _)
sumRowCounts(rows, k) == IF k = 0 THEN 0 ELSE rows[k].count + sumRowCounts(rows, k - 1)

\* A market-share report as market-share.ts writes it: currentlyDelegated is
\* the sum of the row counts, candidates is not smaller.
InputReport(chain, rows, cb) ==
    [chain |-> chain, candidates |-> sumRowCounts(rows, Len(rows)) + 1,
     currentlyDelegated |-> sumRowCounts(rows, Len(rows)),
     coinbaseDelegate |-> cb, delegates |-> rows]

OldFile == [kind |-> "old"]

InitMerge ==
    /\ prog = "merge" /\ pc = "merge" /\ kills = 0
    /\ \E rows \in SeqsUpTo(InputRows, MaxRows), cb \in {Null, DelegateXUpper} :
          repA = InputReport("base", rows, cb)
    /\ \E chain \in {"base", "optimism"}, rows \in SeqsUpTo(InputRows, MaxRows),
          cb \in {DelegateX, DelegateY} :
          repB = InputReport(chain, rows, cb)
    /\ \E old \in {NoFile, OldFile} : mergedJson = old /\ mergedCsv = old
    /\ conc = 0 /\ IdleScan /\ IdleMap /\ IdleMs /\ IdleRpc /\ IdleStore
    /\ IdleExt

\* Bug variant: the chain identifiers are not compared.
chainMismatch_Ignored(a, b) == FALSE

\* a.chain !== b.chain
chainMismatch(a, b) == a.chain # b.chain

\* Both reports name a coinbase delegate and the two differ.
coinbaseMismatch(a, b) ==
    /\ a.coinbaseDelegate # Null /\ b.coinbaseDelegate # Null
    /\ normalizeAddress(a.coinbaseDelegate) # normalizeAddress(b.coinbaseDelegate)

\* counts.set(normalizeAddress(row.delegate), (counts.get(...) ?? 0) + row.count)
\* for the rows of a report, in order.
RECURSIVE mergeCounts(_, _, _)
mergeCounts(m, rows, k) ==
    IF k > Len(rows) THEN m
    ELSE LET d == normalizeAddress(rows[k].delegate)
         IN mergeCounts(IF d \in DOMAIN m THEN [m EXCEPT ![d] = @ + rows[k].count]
                        ELSE m @@ (d :> rows[k].count), rows, k + 1)

RECURSIVE mergeKeys(_, _, _)
mergeKeys(keys, rows, k) ==
    IF k > Len(rows) THEN keys
    ELSE LET d == normalizeAddress(rows[k].delegate)
         IN mergeKeys(IF d \in Range(keys) THEN keys ELSE Append(keys, d), rows, k + 1)

mergedCounts(a, b) == mergeCounts(mergeCounts(NoCounts, a.delegates, 1), b.delegates, 1)
mergedKeys(a, b) == mergeKeys(mergeKeys(<<>>, a.delegates, 1), b.delegates, 1)

mergedReport(a, b) ==
    [kind |-> "json", chain |-> a.chain,
     candidates |-> a.candidates + b.candidates,
     currentlyDelegated |-> a.currentlyDelegated + b.currentlyDelegated,
     uniqueDelegates |-> Cardinality(DOMAIN mergedCounts(a, b)),
     coinbaseDelegate |-> IF a.coinbaseDelegate # Null THEN a.coinbaseDelegate
                          ELSE b.coinbaseDelegate,
     delegates |-> top(mergedKeys(a, b), mergedCounts(a, b),
                       a.currentlyDelegated + b.currentlyDelegated)]

\* The CSV holds one line per ranked row (the decimal rendering of the share
\* is left as the quotient).
mergedCsvFile(a, b) == [kind |-> "csv", lines |-> mergedReport(a, b).delegates]

\* main() up to the first write: load both inputs, compare the chains and
\* the coinbase delegates, merge.
MergeLoad ==
    /\ prog = "merge" /\ pc = "merge"
    /\ pc' = IF chainMismatch(repA, repB) \/ coinbaseMismatch(repA, repB)
             THEN "threw" ELSE "merged"
    /\ UNCHANGED <<prog, kills, conc, fnThrows, mergeVars>>
    /\ UNCHANGED <<variant, pages, queryFrom, runStart, reqCursor, inFlight, res,
                   idx, buffers, bufferedLines, shardFiles, stateFile, outFile>>
    /\ UNCHANGED <<items, results, mnext, wst, witem, started, calls, mapStatus>>
    /\ UNCHANGED <<msVars, rpcVars, storeVars, extVars>>

\* writeFileSync(outJson, ...)
MergeWriteJson ==
    /\ prog = "merge" /\ pc = "merged"
    /\ mergedJson' = mergedReport(repA, repB)
    /\ pc' = "jsonWritten"
    /\ UNCHANGED <<prog, kills, conc, fnThrows, repA, repB, mergedCsv>>
    /\ UNCHANGED <<variant, pages, queryFrom, runStart, reqCursor, inFlight, res,
                   idx, buffers, bufferedLines, shardFiles, stateFile, outFile>>
    /\ UNCHANGED <<items, results, mnext, wst, witem, started, calls, mapStatus>>
    /\ UNCHANGED <<msVars, rpcVars, storeVars, extVars>>

\* writeFileSync(outCsv, ...)
MergeWriteCsv ==
    /\ prog = "merge" /\ pc = "jsonWritten"
    /\ mergedCsv' = mergedCsvFile(repA, repB)
    /\ pc' = "done"
    /\ UNCHANGED <<prog, kills, conc, fnThrows, repA, repB, mergedJson>>
    /\ UNCHANGED <<variant, pages, queryFrom, runStart, reqCursor, inFlight, res,
                   idx, buffers, bufferedLines, shardFiles, stateFile, outFile>>
    /\ UNCHANGED <<items, results, mnext, wst, witem, started, calls, mapStatus>>
    /\ UNCHANGED <<msVars, rpcVars, storeVars, extVars>>

NextMerge == MergeLoad \/ MergeWriteJson \/ MergeWriteCsv

\* ------------------------------------------------------------ label table
\* The scripts that join a market-share report with a label table:
\* filter-to-labeled (second main() of merge-market-share.ts) and
\* relabel-by-group (aggregate-labels.ts).
NoName == <<"null">>
BlankName == <<" ">>
NameA == <<"A">>
NameB == <<"B">>
\* A category is null or a non-empty string; "" stands for null (both are
\* falsy in `if (cat)`).
NoCategory == ""

\* Entries of labelsFile.labels: the same name under two categories, a
\* present entry without a name, a blank name, an address in upper case.
LabelEntries ==
    {[address |-> DelegateXUpper, name |-> NameA, category |-> "cex"],
     [address |-> DelegateY, name |-> NameA, category |-> "dex"],
     [address |-> DelegateY, name |-> NameA, category |-> "cex"],
     [address |-> DelegateY, name |-> NameB, category |-> NoCategory],
     [address |-> DelegateY, name |-> NoName, category |-> "cex"],
     [address |-> DelegateX, name |-> BlankName, category |-> "dex"]}

\* String.prototype.trim
RECURSIVE trimStart(_)
trimStart(str) == IF str # <<>> /\ Head(str) = " " THEN trimStart(Tail(str)) ELSE str

RECURSIVE trimEnd(_)
trimEnd(str) ==
    IF str # <<>> /\ str[Len(str)] = " " THEN trimEnd(SubSeq(str, 1, Len(str) - 1))
    ELSE str

trim(str) == trimEnd(trimStart(str))

\* byAddr: for (const l of labelsFile.labels) byAddr.set(normalizeAddress(
\* l.address), { name, category }); a later entry replaces an earlier one.
RECURSIVE byAddr(_, _)
byAddr(labels, k) ==
    IF k = 0 THEN <<>>
    ELSE LET m == byAddr(labels, k - 1)
             a == normalizeAddress(labels[k].address)
             v == [name |-> labels[k].name, category |-> labels[k].category]
         IN IF a \in DOMAIN m THEN [m EXCEPT ![a] = v] ELSE m @@ (a :> v)

\* A name that is a non-empty string: `label?.name` is truthy.
nameTruthy(m, addr) ==
    addr \in DOMAIN m /\ m[addr].name # NoName /\ m[addr].name # <<>>

\* hasName: !!(label?.name && label.name.trim().length > 0)
hasName(m, addr) == nameTruthy(m, addr) /\ Len(trim(m[addr].name)) > 0

\* Bug variant: the two settings are exchanged.
isLabeled_Exchanged(rn, m, addr) == IF rn THEN addr \in DOMAIN m ELSE hasName(m, addr)

\* isLabeled: requireName ? hasName : label !== undefined
isLabeled(rn, m, addr) == IF rn THEN hasName(m, addr) ELSE addr \in DOMAIN m

\* kept.push({ ...row, labelName, labelCategory })
keepRow(acc, row, label) ==
    [acc EXCEPT !.kept = Append(@, [delegate |-> row.delegate, count |-> row.count,
                                    labelName |-> label.name,
                                    labelCategory |-> label.category])]

\* Bug variant: the dropped total counts rows instead of accounts.
dropRow_CountsRows(acc, row) ==
    [acc EXCEPT !.droppedCount = @ + 1, !.droppedDelegated = @ + 1]

\* droppedCount += 1; droppedDelegated += row.count
dropRow(acc, row) ==
    [acc EXCEPT !.droppedCount = @ + 1, !.droppedDelegated = @ + row.count]

\* for (const row of ms.delegates) { ... }: the first k rows.
RECURSIVE filterLoop(_, _, _, _)
filterLoop(rows, m, rn, k) ==
    IF k = 0 THEN [kept |-> <<>>, droppedCount |-> 0, droppedDelegated |-> 0]
    ELSE LET acc == filterLoop(rows, m, rn, k - 1)
             addr == normalizeAddress(rows[k].delegate)
         IN IF isLabeled(rn, m, addr) THEN keepRow(acc, rows[k], m[addr])
            ELSE dropRow(acc, rows[k])

\* kept.sort((a, b) => b.count - a.count): stable, by count only.
insertRowByCount(ranked, row) ==
    LET n == Cardinality({i \in 1..Len(ranked) : ranked[i].count >= row.count})
    IN SubSeq(ranked, 1, n) \o <<row>> \o SubSeq(ranked, n + 1, Len(ranked))

RECURSIVE sortRowsByCountDesc(_, _)
sortRowsByCountDesc(rows, k) ==
    IF k = 0 THEN <<>>
    ELSE insertRowByCount(sortRowsByCountDesc(rows, k - 1), rows[k])

\* delegates: the ranked kept rows with the share over the kept total.
labeledRows(sorted, keptCurrentlyDelegated) ==
    [i \in 1..Len(sorted) |->
        [rank |-> i, delegate |-> sorted[i].delegate, count |-> sorted[i].count,
         share |-> share(sorted[i].count, keptCurrentlyDelegated),
         labelName |-> sorted[i].labelName,
         labelCategory |-> sorted[i].labelCategory]]

\* The JSON document of filter-to-labeled (the coinbase fields, which are
\* derived from the rows, are left out).
filteredReport(ms, labels, rn) ==
    LET f == filterLoop(ms.delegates, byAddr(labels, Len(labels)), rn,
                        Len(ms.delegates))
        keptCurrentlyDelegated == sumRowCounts(f.kept, Len(f.kept))
        sorted == sortRowsByCountDesc(f.kept, Len(f.kept))
    IN [kind |-> "json", chain |-> ms.chain, labelRequireName |-> rn,
        candidates |-> ms.candidates,
        currentlyDelegated |-> keptCurrentlyDelegated,
        uniqueDelegates |-> Len(sorted),
        dropped |-> [uniqueDelegates |-> f.droppedCount,
                     currentlyDelegated |-> f.droppedDelegated,
                     shareOfOriginalCurrentlyDelegated |->
                         share(f.droppedDelegated, ms.currentlyDelegated)],
        original |-> [currentlyDelegated |-> ms.currentlyDelegated],
        delegates |-> labeledRows(sorted, keptCurrentlyDelegated)]

InitFilter ==
    /\ prog = "filter" /\ pc = "filter" /\ kills = 0
    /\ \E rows \in SeqsUpTo(InputRows, MaxRows) : msInput = InputReport("base", rows, Null)
    /\ labelsFile \in SeqsUpTo(LabelEntries, MaxLabels)
    /\ requireName \in BOOLEAN
    /\ unlabeledMode = "none"
    /\ \E old \in {NoFile, OldFile} : labeledJson = old /\ labeledCsv = old
    /\ conc = 0 /\ IdleScan /\ IdleMap /\ IdleMs /\ IdleRpc /\ IdleStore /\ IdleMerge
    /\ IdleAuth /\ IdlePaging /\ IdleHist /\ IdleParse /\ IdleStart
    /\ IdleRlp

\* main() of filter-to-labeled up to and including writeFileSync(outJson, ...)
FilterWriteJson ==
    /\ prog = "filter" /\ pc = "filter"
    /\ labeledJson' = filteredReport(msInput, labelsFile, requireName)
    /\ pc' = "jsonWritten"
    /\ UNCHANGED <<prog, kills, conc, fnThrows, msInput, labelsFile, requireName,
                   unlabeledMode, labeledCsv, authVars, pagingVars, histVars, parseVars, startVars, rlpVars>>
    /\ UNCHANGED <<variant, pages, queryFrom, runStart, reqCursor, inFlight, res,
                   idx, buffers, bufferedLines, shardFiles, stateFile, outFile>>
    /\ UNCHANGED <<items, results, mnext, wst, witem, started, calls, mapStatus>>
    /\ UNCHANGED <<msVars, rpcVars, storeVars, mergeVars>>

\* writeFileSync(outCsv, ...): one line per row of the JSON document.
FilterWriteCsv ==
    /\ prog = "filter" /\ pc = "jsonWritten"
    /\ labeledCsv' = [kind |-> "csv", lines |-> labeledJson.delegates]
    /\ pc' = "done"
    /\ UNCHANGED <<prog, kills, conc, fnThrows, msInput, labelsFile, requireName,
                   unlabeledMode, labeledJson, authVars, pagingVars, histVars, parseVars, startVars, rlpVars>>
    /\ UNCHANGED <<variant, pages, queryFrom, runStart, reqCursor, inFlight, res,
                   idx, buffers, bufferedLines, shardFiles, stateFile, outFile>>
    /\ UNCHANGED <<items, results, mnext, wst, witem, started, calls, mapStatus>>
    /\ UNCHANGED <<msVars, rpcVars, storeVars, mergeVars>>

NextFilter == FilterWriteJson \/ FilterWriteCsv


\* ------------------------------------------------------ relabel-by-group
Unlabeled == <<"U", "n", "l", "a", "b", "e", "l", "e", "d">>

\* key: label?.name if truthy, else "Unlabeled" or the delegate address.
groupKey(m, addr, mode) ==
    IF nameTruthy(m, addr) THEN m[addr].name
    ELSE IF mode = "group" THEN Unlabeled ELSE addr

\* ensure(key): the aggregate a new key starts from.
NewAgg == [category |-> NoCategory, count |-> 0, members |-> 0]

\* cat = label?.category ?? null
categoryOf(m, addr) == IF addr \in DOMAIN m THEN m[addr].category ELSE NoCategory

\* if (cat) { if (g.category === null) g.category = cat;
\*            else if (g.category !== cat) g.category = "Mixed"; }
\* Bug variant: the category of the first member that has one is kept.
mergeCategory_FirstWins(gcat, cat) ==
    IF gcat = NoCategory THEN cat ELSE gcat

\* Bug variant: the category of the last member wins.
mergeCategory_LastWins(gcat, cat) ==
    IF cat = NoCategory THEN gcat ELSE cat

mergeCategory(gcat, cat) ==
    IF cat = NoCategory THEN gcat
    ELSE IF gcat = NoCategory THEN cat
    ELSE IF gcat # cat THEN "Mixed" ELSE gcat

\* Bug variant: a row replaces the group's count instead of adding to it.
addMember_Replaces(g, row, cat) ==
    [count |-> row.count, members |-> g.members + 1,
     category |-> mergeCategory(g.category, cat)]

\* g.count += row.count; g.members += 1; category update.
addMember(g, row, cat) ==
    [count |-> g.count + row.count, members |-> g.members + 1,
     category |-> mergeCategory(g.category, cat)]

\* for (const row of ms.delegates) { ... }: groups after the first k rows,
\* with the keys in Map insertion order.
RECURSIVE groupLoop(_, _, _, _)
groupLoop(rows, m, mode, k) ==
    IF k = 0 THEN [groups |-> <<>>, keys |-> <<>>]
    ELSE LET acc == groupLoop(rows, m, mode, k - 1)
             addr == normalizeAddress(rows[k].delegate)
             key == groupKey(m, addr, mode)
             cat == categoryOf(m, addr)
         IN IF key \in DOMAIN acc.groups
            THEN [groups |-> [acc.groups EXCEPT
                                 ![key] = addMember(@, rows[k], cat)],
                  keys |-> acc.keys]
            ELSE [groups |-> acc.groups @@ (key :> addMember(NewAgg, rows[k], cat)),
                  keys |-> Append(acc.keys, key)]

\* Array.from(groups.values()).sort((a, b) => b.count - a.count), then the
\* rows of the output.
groupRows(g, total) ==
    LET cnt == [key \in DOMAIN g.groups |-> g.groups[key].count]
        sorted == sortByCountDesc(g.keys, cnt, Len(g.keys))
    IN [i \in 1..Len(sorted) |->
           [rank |-> i, delegate |-> sorted[i], count |-> g.groups[sorted[i]].count,
            share |-> share(g.groups[sorted[i]].count, total),
            category |-> g.groups[sorted[i]].category,
            members |-> g.groups[sorted[i]].members]]

\* The JSON document of relabel-by-group (without the coinbase fields).
relabeledReport(ms, labels, mode) ==
    LET g == groupLoop(ms.delegates, byAddr(labels, Len(labels)), mode,
                       Len(ms.delegates))
    IN [kind |-> "json", chain |-> ms.chain, unlabeledMode |-> mode,
        candidates |-> ms.candidates,
        currentlyDelegated |-> ms.currentlyDelegated,
        uniqueDelegates |-> Len(g.keys),
        delegates |-> groupRows(g, ms.currentlyDelegated)]

\* UNLABELED_MODE must be 'group' or 'keep'.
validMode(mode) == mode \in {"group", "keep"}

InitRelabel ==
    /\ prog = "relabel" /\ pc = "relabel" /\ kills = 0
    /\ \E rows \in SeqsUpTo(InputRows, MaxRows) : msInput = InputReport("base", rows, Null)
    /\ labelsFile \in SeqsUpTo(LabelEntries, MaxLabels)
    /\ requireName = FALSE
    /\ unlabeledMode \in {"group", "keep", "drop"}
    /\ \E old \in {NoFile, OldFile} : labeledJson = old /\ labeledCsv = old
    /\ conc = 0 /\ IdleScan /\ IdleMap /\ IdleMs /\ IdleRpc /\ IdleStore /\ IdleMerge
    /\ IdleAuth /\ IdlePaging /\ IdleHist /\ IdleParse /\ IdleStart
    /\ IdleRlp

\* main() of relabel-by-group up to and including writeFileSync(outJson, ...)
RelabelWriteJson ==
    /\ prog = "relabel" /\ pc = "relabel"
    /\ IF validMode(unlabeledMode)
       THEN /\ labeledJson' = relabeledReport(msInput, labelsFile, unlabeledMode)
            /\ pc' = "jsonWritten"
       ELSE /\ labeledJson' = labeledJson
            /\ pc' = "threw"
    /\ UNCHANGED <<prog, kills, conc, fnThrows, msInput, labelsFile, requireName,
                   unlabeledMode, labeledCsv, authVars, pagingVars, histVars, parseVars, startVars, rlpVars>>
    /\ UNCHANGED <<variant, pages, queryFrom, runStart, reqCursor, inFlight, res,
                   idx, buffers, bufferedLines, shardFiles, stateFile, outFile>>
    /\ UNCHANGED <<items, results, mnext, wst, witem, started, calls, mapStatus>>
    /\ UNCHANGED <<msVars, rpcVars, storeVars, mergeVars>>

\* writeFileSync(outCsv, ...): one line per row of the JSON document.
RelabelWriteCsv ==
    /\ prog = "relabel" /\ pc = "jsonWritten"
    /\ labeledCsv' = [kind |-> "csv", lines |-> labeledJson.delegates]
    /\ pc' = "done"
    /\ UNCHANGED <<prog, kills, conc, fnThrows, msInput, labelsFile, requireName,
                   unlabeledMode, labeledJson, authVars, pagingVars, histVars, parseVars, startVars, rlpVars>>
    /\ UNCHANGED <<variant, pages, queryFrom, runStart, reqCursor, inFlight, res,
                   idx, buffers, bufferedLines, shardFiles, stateFile, outFile>>
    /\ UNCHANGED <<items, results, mnext, wst, witem, started, calls, mapStatus>>
    /\ UNCHANGED <<msVars, rpcVars, storeVars, mergeVars>>

NextRelabel == RelabelWriteJson \/ RelabelWriteCsv

\* ---------------------------------------------------- eip7702.ts values
\* A JavaScript value: its typeof, its numeric value and its characters.  A
\* number with characters is a non-integer (the characters are its fraction).
JsString(str) == [t |-> "string", n |-> 0, s |-> str]
JsNumber(n) == [t |-> "number", n |-> n, s |-> <<>>]
JsFraction(n) == [t |-> "number", n |-> n, s |-> <<".", "5">>]
JsBigint(n) == [t |-> "bigint", n |-> n, s |-> <<>>]
JsUndefined == [t |-> "undefined", n |-> 0, s |-> <<>>]

HexChars == <<"0", "1", "2", "3", "4", "5", "6", "7", "8", "9",
              "a", "b", "c", "d", "e", "f">>

\* [0-9a-fA-F] and the value of such a digit.
HexValues ==
    [ch \in {HexChars[k] : k \in 1..16} \cup {"A", "B", "C", "D", "E", "F"} |->
        (CHOOSE k \in 1..16 : HexChars[k] = lowerChar(ch)) - 1]

isHexChar(ch) == ch \in DOMAIN HexValues
isDecChar(ch) == ch \in DOMAIN HexValues /\ HexValues[ch] < 10 
hexVal(ch) == HexValues[ch]
allHex(str) == \A i \in 1..Len(str) : isHexChar(str[i])
allDec(str) == \A i \in 1..Len(str) : isDecChar(str[i])

\* The value of a digit string in the given base.
RECURSIVE digitsValue(_, _)
digitsValue(str, base) ==
    IF str = <<>> THEN 0
    ELSE digitsValue(SubSeq(str, 1, Len(str) - 1), base) * base + hexVal(str[Len(str)])

Parsed(n) == [ok |-> TRUE, n |-> n]
NotParsed == [ok |-> FALSE, n |-> 0]

\* BigInt(s) for a trimmed, non-empty s: "0x" and hex digits, or decimal
\* digits with an optional sign; anything else is a SyntaxError.
StringToBigInt(str) ==
    IF startsWith(str, <<"0", "x">>) \/ startsWith(str, <<"0", "X">>)
    THEN LET d == SubSeq(str, 3, Len(str))
         IN IF d # <<>> /\ allHex(d) THEN Parsed(digitsValue(d, 16)) ELSE NotParsed
    ELSE IF Head(str) \in {"-", "+"}
    THEN LET d == Tail(str)
         IN IF d # <<>> /\ allDec(d)
            THEN Parsed(IF Head(str) = "-" THEN 0 - digitsValue(d, 10)
                        ELSE digitsValue(d, 10))
            ELSE NotParsed
    ELSE IF allDec(str) THEN Parsed(digitsValue(str, 10)) ELSE NotParsed

\* parseUintBigint: a non-negative integer given as bigint, number or string;
\* NotParsed stands for the thrown `Invalid ${field} in authorization`.
parseUintBigint(value) ==
    IF value.t = "bigint"
    THEN IF value.n < 0 THEN NotParsed ELSE Parsed(value.n)
    ELSE IF value.t = "number"
    THEN IF value.s # <<>> \/ value.n < 0 THEN NotParsed ELSE Parsed(value.n)
    ELSE IF value.t = "string"
    THEN LET str == trim(value.s)
         IN IF str = <<>> THEN NotParsed
            ELSE IF StringToBigInt(str).ok /\ StringToBigInt(str).n >= 0
            THEN StringToBigInt(str) ELSE NotParsed
    ELSE NotParsed

\* isHexAddress: typeof maybe === "string" && /^0x[0-9a-fA-F]{40}$/.test(maybe)
isHexAddress(maybe) ==
    /\ maybe.t = "string"
    /\ Len(maybe.s) = 2 + AddrHexLen
    /\ startsWith(maybe.s, <<"0", "x">>)
    /\ allHex(SubSeq(maybe.s, 3, Len(maybe.s)))

Hex32Len == 64

\* Bug variant: the hex digits are not padded to 32 bytes.
normalizeHex32_NoPad(value) ==
    IF value.t # "string" THEN [ok |-> FALSE, s |-> <<>>]
    ELSE LET str == trim(value.s)
             d == SubSeq(str, 3, Len(str))
         IN IF startsWith(str, <<"0", "x">>) /\ Len(d) >= 1 /\ Len(d) <= Hex32Len
               /\ allHex(d)
            THEN [ok |-> TRUE, s |-> <<"0", "x">> \o toLowerCase(d)]
            ELSE [ok |-> FALSE, s |-> <<>>]

\* normalizeHex32: /^0x[0-9a-fA-F]{1,64}$/ on the trimmed string, then lower
\* case and padStart(64, "0").
normalizeHex32(value) ==
    IF value.t # "string" THEN [ok |-> FALSE, s |-> <<>>]
    ELSE LET str == trim(value.s)
             d == SubSeq(str, 3, Len(str))
         IN IF startsWith(str, <<"0", "x">>) /\ Len(d) >= 1 /\ Len(d) <= Hex32Len
               /\ allHex(d)
            THEN [ok |-> TRUE,
                  s |-> <<"0", "x">> \o Rep("0", Hex32Len - Len(d)) \o toLowerCase(d)]
            ELSE [ok |-> FALSE, s |-> <<>>]

\* ---- ethers ----
RECURSIVE hexDigits(_)
hexDigits(n) ==
    IF n < 16 THEN <<HexChars[n + 1]>>
    ELSE hexDigits(n \div 16) \o <<HexChars[(n % 16) + 1]>>

\* toBeHex: the hex digits of the value, padded to whole bytes.
toBeHex(n) ==
    LET d == hexDigits(n)
    IN <<"0", "x">> \o (IF Len(d) % 2 = 1 THEN <<"0">> \o d ELSE d)

\* getBytes: the bytes a hex string denotes.
RECURSIVE bytesOfDigits(_)
bytesOfDigits(d) ==
    IF Len(d) < 2 THEN <<>>
    ELSE <<16 * hexVal(d[1]) + hexVal(d[2])>> \o bytesOfDigits(SubSeq(d, 3, Len(d)))

getBytes(hex) == bytesOfDigits(SubSeq(hex, 3, Len(hex)))

upperChar(ch) ==
    IF \E k \in 1..Len(LowerChars) : LowerChars[k] = ch
    THEN UpperChars[CHOOSE k \in 1..Len(LowerChars) : LowerChars[k] = ch]
    ELSE ch

\* The mixed-case checksum form of an address.  The real pattern is taken
\* from keccak256 of the address; the model fixes one pattern (every second
\* hex digit in upper case).
checksumCase(addr) ==
    [i \in 1..Len(addr) |-> IF i > 2 /\ i % 2 = 1 THEN upperChar(addr[i]) ELSE addr[i]]

isMixedCase(addr) ==
    /\ \E i \in 3..Len(addr) : addr[i] \in {"A", "B", "C", "D", "E", "F"}
    /\ \E i \in 3..Len(addr) : addr[i] \in {"a", "b", "c", "d", "e", "f"}

\* getAddress: the checksum form; a mixed-case address that is not in
\* checksum form is rejected ("bad address checksum").
getAddress(addr) ==
    IF isMixedCase(addr) /\ addr # checksumCase(toLowerCase(addr))
    THEN [ok |-> FALSE, s |-> <<>>]
    ELSE [ok |-> TRUE, s |-> checksumCase(toLowerCase(addr))]

MAGIC == 5

\* Bug variant: zero is encoded like every other value.
rlpUint_ZeroAsByte(n) == toBeHex(n)

\* chainIdRlp / nonceRlp: n === 0n ? "0x" : toBeHex(n)
rlpUint(n) == IF n = 0 THEN <<"0", "x">> ELSE toBeHex(n)

\* keccak256(concat([MAGIC, getBytes(encodeRlp([chainIdRlp, address,
\* nonceRlp]))])).  RLP and keccak256 are injective on what they are given,
\* so the digest is kept as the byte strings that went in.
authorizationDigest(chainId, address, nonce) ==
    <<MAGIC, getBytes(rlpUint(chainId)), getBytes(address), getBytes(rlpUint(nonce))>>

\* ---- the signer's side (EIP-7702) ----
\* An integer as an RLP scalar: big-endian without leading zero bytes, the
\* empty string for 0.
RECURSIVE minimalBytes(_)
minimalBytes(n) == IF n = 0 THEN <<>> ELSE minimalBytes(n \div 256) \o <<n % 256>>

\* What the authority signed: keccak(0x05 || rlp([chain_id, address, nonce])).
signedDigest(msg) ==
    <<MAGIC, minimalBytes(msg.chainId), getBytes(msg.address), minimalBytes(msg.nonce)>>

PrivateKeys == {1, 2}
\* The address of a private key, in lower case.
addressOfKey(k) == <<"0", "x">> \o Rep(IF k = 1 THEN "c" ELSE "d", AddrHexLen)
\* The signature of a key: r has a leading zero byte.
signatureOfKey(k) ==
    [r |-> <<"0", "x", "0", "0">> \o Rep(IF k = 1 THEN "a" ELSE "b", Hex32Len - 2),
     s |-> <<"0", "x">> \o Rep("5", Hex32Len),
     yParity |-> k % 2]
\* What ecrecover yields when signature and digest do not belong together.
UnrelatedAddress == <<"0", "x">> \o Rep("E", AddrHexLen)

\* recoverAddress(digest, Signature.from({ r, s, yParity })): the checksum
\* address of the key whose signature over this digest was given, some
\* unrelated address otherwise.  signed tells which key signed what.
recoverAddress(digest, r, s, yParity, signed) ==
    IF /\ signed.key \in PrivateKeys
       /\ r = signatureOfKey(signed.key).r
       /\ s = signatureOfKey(signed.key).s
       /\ yParity = signatureOfKey(signed.key).yParity
       /\ digest = signedDigest(signed)
    THEN checksumCase(addressOfKey(signed.key))
    ELSE UnrelatedAddress

Recovered(addr) == [ok |-> TRUE, address |-> addr, error |-> ""]
Thrown(field) == [ok |-> FALSE, address |-> <<>>, error |-> field]

\* Bug variant: any yParity is accepted.
yParityValid_Any(n) == TRUE

\* yParityBig === 0n || yParityBig === 1n
yParityValid(n) == n = 0 \/ n = 1

\* recoverAuthorityFromAuthorization: Thrown(field) stands for the error
\* `Invalid ${field} in authorization`, Thrown("ethers") for an error raised
\* inside the library.
recoverAuthorityFromAuthorization(a) ==
    IF ~isHexAddress(a.address) THEN Thrown("delegate address")
    ELSE IF ~parseUintBigint(a.chainId).ok THEN Thrown("chainId")
    ELSE IF ~parseUintBigint(a.nonce).ok THEN Thrown("nonce")
    ELSE IF ~parseUintBigint(a.yParity).ok THEN Thrown("yParity")
    ELSE IF ~yParityValid(parseUintBigint(a.yParity).n) THEN Thrown("yParity")
    ELSE IF ~normalizeHex32(a.r).ok THEN Thrown("r")
    ELSE IF ~normalizeHex32(a.s).ok THEN Thrown("s")
    ELSE IF ~getAddress(a.address.s).ok THEN Thrown("ethers")
    ELSE Recovered(toLowerCase(recoverAddress(
             authorizationDigest(parseUintBigint(a.chainId).n,
                                 getAddress(a.address.s).s,
                                 parseUintBigint(a.nonce).n),
             normalizeHex32(a.r).s, normalizeHex32(a.s).s,
             parseUintBigint(a.yParity).n, a.signed)))

\* ------------------------------------------- authorization tuples (input)
\* How a field of a tuple is written.  Integers: as number, bigint, decimal
\* or hex string, with blanks around; or not an unsigned integer at all.
GoodIntKinds == {"number", "bigint", "dec", "hex", "padded"}
BadIntKinds == {"negative", "fraction", "text", "blank", "bare0x", "minus", "undefined"}

RECURSIVE decDigits(_)
decDigits(n) ==
    IF n < 10 THEN <<HexChars[n + 1]>>
    ELSE decDigits(n \div 10) \o <<HexChars[(n % 10) + 1]>>

intRep(n, kind) ==
    CASE kind = "number" -> JsNumber(n)
      [] kind = "bigint" -> JsBigint(n)
      [] kind = "dec" -> JsString(decDigits(n))
      [] kind = "hex" -> JsString(<<"0", "x">> \o hexDigits(n))
      [] kind = "padded" -> JsString(<<" ">> \o decDigits(n) \o <<" ">>)
      [] kind = "negative" -> JsNumber(0 - 1)
      [] kind = "fraction" -> JsFraction(n)
      [] kind = "text" -> JsString(<<"n", "o">>)
      [] kind = "blank" -> JsString(<<" ">>)
      [] kind = "bare0x" -> JsString(<<"0", "x">>)
      [] kind = "minus" -> JsString(<<"-", "1">>)
      [] kind = "outOfRange" -> JsNumber(27)
      [] kind = "two" -> JsString(<<"0", "x", "2">>)
      [] OTHER -> JsUndefined

\* Addresses: lower case, upper case, checksum case; or malformed.
GoodAddressKinds == {"lower", "upper", "checksum"}
BadAddressKinds == {"short", "noPrefix", "nonHex", "padded", "undefined"}

addressRep(addr, kind) ==
    LET d == SubSeq(addr, 3, Len(addr)) IN
    CASE kind = "lower" -> JsString(addr)
      [] kind = "upper" -> JsString(<<"0", "x">> \o [i \in 1..Len(d) |-> upperChar(d[i])])
      [] kind = "checksum" -> JsString(checksumCase(addr))
      [] kind = "badChecksum" -> JsString(<<"0", "x", upperChar(d[1])>> \o Tail(d))
      [] kind = "short" -> JsString(SubSeq(addr, 1, Len(addr) - 1))
      [] kind = "noPrefix" -> JsString(d)
      [] kind = "nonHex" -> JsString(<<"0", "x", "g">> \o Tail(d))
      [] kind = "padded" -> JsString(<<" ">> \o addr)
      [] OTHER -> JsUndefined

\* r and s: the 32 bytes in full, in upper case, without leading zeros,
\* with blanks around; or not hex of at most 32 bytes.
GoodHex32Kinds == {"full", "upper", "stripped", "padded"}
BadHex32Kinds == {"long", "noPrefix", "nonHex", "bare0x", "notString"}

RECURSIVE stripZeros(_)
stripZeros(d) == IF Len(d) > 1 /\ Head(d) = "0" THEN stripZeros(Tail(d)) ELSE d

hex32Rep(hex, kind) ==
    LET d == SubSeq(hex, 3, Len(hex)) IN
    CASE kind = "full" -> JsString(hex)
      [] kind = "upper" -> JsString(<<"0", "x">> \o [i \in 1..Len(d) |-> upperChar(d[i])])
      [] kind = "stripped" -> JsString(<<"0", "x">> \o stripZeros(d))
      [] kind = "padded" -> JsString(<<" ">> \o hex \o <<" ">>)
      [] kind = "long" -> JsString(hex \o <<"0">>)
      [] kind = "noPrefix" -> JsString(d)
      [] kind = "nonHex" -> JsString(<<"0", "x", "z">> \o Tail(d))
      [] kind = "bare0x" -> JsString(<<"0", "x">>)
      [] OTHER -> JsNumber(5)

Fields == {"chainId", "nonce", "address", "yParity", "r", "s"}

GoodKinds ==
    [f \in Fields |->
        CASE f \in {"chainId", "nonce", "yParity"} -> GoodIntKinds
          [] f = "address" -> GoodAddressKinds
          [] OTHER -> GoodHex32Kinds]

BadKinds ==
    [f \in Fields |->
        CASE f \in {"chainId", "nonce"} -> BadIntKinds
          [] f = "yParity" -> BadIntKinds \cup {"outOfRange", "two"}
          [] f = "address" -> BadAddressKinds
          [] OTHER -> BadHex32Kinds]

DefaultKinds == [f \in Fields |-> CASE f \in {"chainId", "nonce", "yParity"} -> "number"
                                    [] f = "address" -> "lower"
                                    [] OTHER -> "full"]

\* The form the indexer delivers: quantities as hex strings without leading
\* zeros.
QuantityKinds == [f \in Fields |-> CASE f \in {"chainId", "nonce", "yParity"} -> "hex"
                                     [] f = "address" -> "lower"
                                     [] OTHER -> "stripped"]

\* The ways of writing a tuple: one field departs from the default form; or
\* yParity is out of range and a second field is malformed too; or the
\* address is wrongly checksummed.
OneFieldVaried ==
    UNION {{[DefaultKinds EXCEPT ![f] = kf] : kf \in GoodKinds[f] \cup BadKinds[f]} :
              f \in Fields}

TwoFieldsMalformed ==
    UNION {{[[DefaultKinds EXCEPT !["yParity"] = "outOfRange"] EXCEPT ![g] = kg] :
               kg \in BadKinds[g]} : g \in Fields \ {"yParity"}}

KindChoices ==
    OneFieldVaried \cup TwoFieldsMalformed
    \cup {QuantityKinds, [DefaultKinds EXCEPT !["address"] = "badChecksum"]}

\* The contract an authorization delegates to.
DelegateTarget == <<"0", "x">> \o Rep("a", AddrHexLen)

ChainIds == {0, 1, 8453}
Nonces == {0, 256}

\* The tuple that key k signed for (chainId, DelegateTarget, nonce), written
\* as kinds says.  hints are the values of auth.authority, auth.signer,
\* auth.from, auth.account, auth.authorizer and auth.sender.
AuthorizationTuple(k, chainId, nonce, kinds, hints) ==
    [chainId |-> intRep(chainId, kinds["chainId"]),
     address |-> addressRep(DelegateTarget, kinds["address"]),
     nonce |-> intRep(nonce, kinds["nonce"]),
     yParity |-> intRep(signatureOfKey(k).yParity, kinds["yParity"]),
     r |-> hex32Rep(signatureOfKey(k).r, kinds["r"]),
     s |-> hex32Rep(signatureOfKey(k).s, kinds["s"]),
     hints |-> hints,
     signed |-> [key |-> k, chainId |-> chainId, address |-> DelegateTarget,
                 nonce |-> nonce],
     kinds |-> kinds]

AuthTuples ==
    {AuthorizationTuple(k, c, n, kinds, <<>>) :
        k \in PrivateKeys, c \in ChainIds, n \in Nonces, kinds \in KindChoices}

\* txn.from: absent, a relayer, or the authority itself.
Sponsor == <<"0", "x">> \o Rep("F", AddrHexLen)
Senders == {JsUndefined, JsString(Sponsor), JsString(addressOfKey(1))}

\* Transactions of a response with more than one transaction: a recoverable
\* tuple, a tuple whose yParity is out of range, and the latter carrying an
\* `authority` field.
ResponseTxns ==
    {[from |-> f, auth |-> a] :
        f \in Senders,
        a \in {AuthorizationTuple(1, 8453, 0, DefaultKinds, <<>>),
               AuthorizationTuple(1, 8453, 0,
                                  [DefaultKinds EXCEPT !["yParity"] = "outOfRange"], <<>>),
               AuthorizationTuple(1, 8453, 0,
                                  [DefaultKinds EXCEPT !["yParity"] = "outOfRange"],
                                  <<JsUndefined, JsString(addressOfKey(2))>>)}}

\* ------------------------------------------------- processOneResponse
NoAddress == <<>>

\* extractAuthorityFromAuth: the first candidate field that is an address.
RECURSIVE extractAuthorityFromAuth(_, _)
extractAuthorityFromAuth(hints, k) ==
    IF k > Len(hints) THEN NoAddress
    ELSE IF isHexAddress(hints[k]) THEN normalizeAddress(hints[k].s)
    ELSE extractAuthorityFromAuth(hints, k + 1)

\* from: txn.from ? normalizeAddress(txn.from) : undefined
senderOf(tx) ==
    IF tx.from.t = "string" /\ tx.from.s # <<>> THEN normalizeAddress(tx.from.s)
    ELSE NoAddress

\* The catch branch: authority = extractAuthorityFromAuth(auth) ?? from in the
\* .ts script, authority = txFrom in the .mjs runner.
fallbackAuthority(v, tx) ==
    IF v = "ts" /\ extractAuthorityFromAuth(tx.auth.hints, 1) # NoAddress
    THEN extractAuthorityFromAuth(tx.auth.hints, 1)
    ELSE senderOf(tx)

authorityOf(v, tx) ==
    IF recoverAuthorityFromAuthorization(tx.auth).ok
    THEN recoverAuthorityFromAuthorization(tx.auth).address
    ELSE fallbackAuthority(v, tx)

\* if (recovered) recoveredAuthority++
countsAsRecovered(v, tx) == recoverAuthorityFromAuthorization(tx.auth).ok

\* else if (authority === from) fallbackToTxFrom++   (.ts)
\* else fallbackToTxFrom++                           (.mjs)
countsAsFallback(v, tx) ==
    /\ ~recoverAuthorityFromAuthorization(tx.auth).ok
    /\ v = "mjs" \/ authorityOf(v, tx) = senderOf(tx)

\* Where the pushed address came from.
originOf(v, tx) ==
    IF recoverAuthorityFromAuthorization(tx.auth).ok THEN "recovered"
    ELSE IF fallbackAuthority(v, tx) = senderOf(tx) THEN "txFrom" ELSE "authField"

\* ---- the RLP items of an authorization, in the three copies of
\* recoverAuthorityFromAuthorization ----
RecoverModules == {"eip7702.ts", "eip7702.mjs", "legacy"}

\* toBeHex(value) on a BigNumberish: the value is read with getBigInt first.
toBeHexOf(value) == toBeHex(parseUintBigint(value).n)

\* The older copy: auth.chainId === 0n ? "0x" : toBeHex(auth.chainId)
legacyChainIdRlp(value) ==
    IF value.t = "bigint" /\ value.n = 0 THEN <<"0", "x">> ELSE toBeHexOf(value)

\* The older copy: auth.nonce === 0 ? "0x" : toBeHex(auth.nonce)
legacyNonceRlp(value) ==
    IF value.t = "number" /\ value.s = <<>> /\ value.n = 0
    THEN <<"0", "x">> ELSE toBeHexOf(value)

\* chainIdRlp and nonceRlp as the copy m computes them.
chainIdRlpOf(m, value) ==
    IF m = "legacy" THEN legacyChainIdRlp(value)
    ELSE rlpUint(parseUintBigint(value).n)

nonceRlpOf(m, value) ==
    IF m = "legacy" THEN legacyNonceRlp(value)
    ELSE rlpUint(parseUintBigint(value).n)

InitRlp ==
    /\ prog = "rlp" /\ pc = "input" /\ kills = 0
    /\ recoverModule \in RecoverModules
    /\ \E c \in ChainIds, n \in Nonces, kc \in GoodIntKinds, kn \in GoodIntKinds :
          authIn = [chainId |-> intRep(c, kc), nonce |-> intRep(n, kn),
                    value |-> [chainId |-> c, nonce |-> n]]
    /\ rlpItems = <<>>
    /\ conc = 0 /\ fnThrows = {} /\ IdleScan /\ IdleMap /\ IdleMs /\ IdleRpc /\ IdleStore
    /\ IdleMerge /\ IdleLabel /\ IdleAuth /\ IdlePaging /\ IdleHist /\ IdleParse
    /\ IdleStart

\* const rlp = encodeRlp([chainIdRlp, getAddress(auth.address), nonceRlp])
EncodeRlpItems ==
    /\ prog = "rlp" /\ pc = "input"
    /\ rlpItems' = [chainId |-> getBytes(chainIdRlpOf(recoverModule, authIn.chainId)),
                    nonce |-> getBytes(nonceRlpOf(recoverModule, authIn.nonce))]
    /\ pc' = "encoded"
    /\ UNCHANGED <<prog, kills, conc, fnThrows, variant, recoverModule, authIn,
                   authVars, labelVars, pagingVars, histVars, parseVars, startVars>>
    /\ UNCHANGED <<pages, queryFrom, runStart, reqCursor, inFlight, res,
                   idx, buffers, bufferedLines, shardFiles, stateFile, outFile>>
    /\ UNCHANGED <<items, results, mnext, wst, witem, started, calls, mapStatus>>
    /\ UNCHANGED <<msVars, rpcVars, storeVars, mergeVars>>

NextRlp == EncodeRlpItems

SpecRlp == InitRlp /\ [][NextRlp]_vars

InitAuths ==
    /\ prog = "auths" /\ pc = "processing" /\ kills = 0
    /\ variant \in {"ts", "mjs"}
    /\ \/ txns \in SeqsUpTo(ResponseTxns, MaxTxns)
       \/ \E f \in Senders, a \in AuthTuples : txns = <<[from |-> f, auth |-> a]>>
    /\ txi = 1
    /\ recoveredAuthority = 0 /\ fallbackToTxFrom = 0
    /\ authLines = <<>> /\ lineOrigin = <<>> /\ lastRecovery = <<>>
    /\ conc = 0 /\ IdleScanState /\ IdleMap /\ IdleMs /\ IdleRpc /\ IdleStore
    /\ IdleMerge /\ IdleLabel /\ IdlePaging /\ IdleHist /\ IdleParse /\ IdleStart
    /\ IdleRlp

\* One iteration of `for (const auth of authList)` of the transaction loop:
\* try to recover, fall back in the catch branch, skip without an authority,
\* count, push the line.
ProcessTxn ==
    /\ prog = "auths" /\ pc = "processing" /\ txi <= Len(txns)
    /\ lastRecovery' = recoverAuthorityFromAuthorization(txns[txi].auth)
    /\ txi' = txi + 1
    /\ IF authorityOf(variant, txns[txi]) = NoAddress
       THEN UNCHANGED <<recoveredAuthority, fallbackToTxFrom, authLines, lineOrigin>>
       ELSE /\ recoveredAuthority' =
                  IF countsAsRecovered(variant, txns[txi]) THEN recoveredAuthority + 1
                  ELSE recoveredAuthority
            /\ fallbackToTxFrom' =
                  IF countsAsFallback(variant, txns[txi]) THEN fallbackToTxFrom + 1
                  ELSE fallbackToTxFrom
            /\ authLines' = Append(authLines, authorityOf(variant, txns[txi]))
            /\ lineOrigin' = Append(lineOrigin, originOf(variant, txns[txi]))
    /\ UNCHANGED <<prog, pc, kills, conc, fnThrows, variant, txns, labelVars, pagingVars, histVars, parseVars, startVars, rlpVars>>
    /\ UNCHANGED <<pages, queryFrom, runStart, reqCursor, inFlight, res,
                   idx, buffers, bufferedLines, shardFiles, stateFile, outFile>>
    /\ UNCHANGED <<items, results, mnext, wst, witem, started, calls, mapStatus>>
    /\ UNCHANGED <<msVars, rpcVars, storeVars, mergeVars>>

\* The transaction loop has run through the response.
EndResponse ==
    /\ prog = "auths" /\ pc = "processing" /\ txi > Len(txns)
    /\ pc' = "done"
    /\ UNCHANGED <<prog, kills, conc, fnThrows, variant, authVars, labelVars, pagingVars, histVars, parseVars, startVars, rlpVars>>
    /\ UNCHANGED <<pages, queryFrom, runStart, reqCursor, inFlight, res,
                   idx, buffers, bufferedLines, shardFiles, stateFile, outFile>>
    /\ UNCHANGED <<items, results, mnext, wst, witem, started, calls, mapStatus>>
    /\ UNCHANGED <<msVars, rpcVars, storeVars, mergeVars>>

NextAuths == ProcessTxn \/ EndResponse

\* ---------------------------------------------------------------- rpcCall
includes(str, pat) ==
    \E i \in 1..(Len(str) - Len(pat) + 1) : SubSeq(str, i, i + Len(pat) - 1) = pat

\* JSON-RPC error messages used as inputs.
MsgRateUpper == <<"R", "a", "t", "e">>
MsgLimit == <<"l", "i", "m", "i", "t">>
MsgTimeoutUpper == <<"T", "I", "M", "E", "O", "U", "T">>
MsgReverted == <<"r", "e", "v", "e", "r", "t", "e", "d">>
MsgNotString == <<>>
ErrMsgs == {MsgRateUpper, MsgLimit, MsgTimeoutUpper, MsgReverted, MsgNotString}

HttpStatuses == {200, 400, 404, 408, 429, 500, 501, 502, 503, 504, 599}

Responses ==
    {[status |-> st, hasError |-> FALSE, msg |-> <<>>] : st \in HttpStatuses}
    \cup {[status |-> 200, hasError |-> TRUE, msg |-> m] : m \in ErrMsgs}

\* res.ok
resOk(r) == 200 <= r.status /\ r.status <= 299


\* Bug variant: 503 is left out of the retryable statuses.
httpRetryable_No503(st) == st \in {429, 408, 500, 502, 504}

\* `status === 429 || status === 408 || status === 500 || ... || status === 504`
httpRetryable(st) == st \in {429, 408, 500, 502, 503, 504}


\* Bug variant: every JSON-RPC error is taken as retryable.
jsonRetryable_AnyError(msg) == TRUE

\* msg.toLowerCase().includes("rate") || ...("limit") || ...("timeout")
jsonRetryable(msg) ==
    \/ includes(toLowerCase(msg), <<"r", "a", "t", "e">>)
    \/ includes(toLowerCase(msg), <<"l", "i", "m", "i", "t">>)
    \/ includes(toLowerCase(msg), <<"t", "i", "m", "e", "o", "u", "t">>)


\* Bug variant: the retry budget is one short.
isLastAttempt_OneShort(a) == a + 1 >= maxRetries

\* `attempt === maxRetries`
isLastAttempt(a) == a = maxRetries

RECURSIVE Pow2(_)
Pow2(k) == IF k = 0 THEN 1 ELSE 2 * Pow2(k - 1)

JitterCapMs == 250


\* Bug variant: the backoff is not capped by maxDelayMs.
backoffMs_Uncapped(a) == baseDelayMs * Pow2(a)

\* Math.min(maxDelayMs, baseDelayMs * 2 ** attempt)
backoffMs(a) == Min(maxDelayMs, baseDelayMs * Pow2(a))

\* RPC_RETRY_BASE_DELAY_MS and RPC_RETRY_MAX_DELAY_MS: the defaults (250 and
\* 10_000), a zero base delay, and caps below and above the jitter cap.
BaseDelays == {0, 250}
MaxDelays == {100, 400, 10000}

InitRpc ==
    /\ prog = "rpc"
    /\ maxRetries \in 0..MaxRetriesBound
    /\ baseDelayMs \in BaseDelays
    /\ maxDelayMs \in MaxDelays
    /\ attempt = 0 /\ requests = 0 /\ retries = 0 /\ slept = -1
    /\ lastResp = NoResp /\ only429 = TRUE
    /\ pc = "attempt" /\ kills = 0
    /\ conc = 0 /\ IdleMap /\ IdleMs /\ IdleScan /\ IdleStore /\ IdleMerge
    /\ IdleExt

\* Loop head: `attempt <= maxRetries`, then fetch(); past the loop the
\* function throws "RPC call failed after retries".
RpcSend ==
    /\ prog = "rpc" /\ pc = "attempt"
    /\ IF attempt <= maxRetries
       THEN requests' = requests + 1 /\ pc' = "waiting"
       ELSE requests' = requests /\ pc' = "threw"
    /\ UNCHANGED <<prog, kills, maxRetries, baseDelayMs, maxDelayMs, attempt,
                   retries, slept, lastResp, only429, mapVars, msVars, mergeVars, extVars, storeVars>>
    /\ UNCHANGED <<variant, pages, queryFrom, runStart, reqCursor, inFlight, res,
                   idx, buffers, bufferedLines, shardFiles, stateFile, outFile>>

\* Math.floor(Math.random() * cap) for Math.random() at 0, 1/2 and just under 1.
jitterValues(cap) == IF cap <= 0 THEN {0} ELSE {0, cap \div 2, cap - 1}

\* Back off (with jitter in [0, min(250, backoff))) and `continue`.
backoffAndRetry ==
    /\ \E jitter \in jitterValues(Min(JitterCapMs, backoffMs(attempt))) :
           slept' = backoffMs(attempt) + jitter
    /\ retries' = retries + 1
    /\ attempt' = attempt + 1
    /\ pc' = "attempt"

rpcThrow == pc' = "threw" /\ UNCHANGED <<attempt, retries, slept>>

\* The body of the loop after fetch() resolved with response r.
RpcResponse(r) ==
    /\ prog = "rpc" /\ pc = "waiting"
    /\ lastResp' = r
    /\ only429' = (only429 /\ r.status = 429)
    /\ IF ~resOk(r)
       THEN IF ~httpRetryable(r.status) \/ isLastAttempt(attempt)
            THEN rpcThrow
            ELSE backoffAndRetry
       ELSE IF r.hasError
            THEN IF jsonRetryable(r.msg) /\ attempt < maxRetries
                 THEN backoffAndRetry
                 ELSE rpcThrow
            ELSE pc' = "returned" /\ UNCHANGED <<attempt, retries, slept>>
    /\ UNCHANGED <<prog, kills, maxRetries, baseDelayMs, maxDelayMs, requests,
                   mapVars, msVars, mergeVars, extVars, storeVars>>
    /\ UNCHANGED <<variant, pages, queryFrom, runStart, reqCursor, inFlight, res,
                   idx, buffers, bufferedLines, shardFiles, stateFile, outFile>>

NextRpc == RpcSend \/ \E r \in Responses : RpcResponse(r)

\* ------------------------------------------- pagination loop with failures
\* The scan against an indexer that may end its data without a cursor, with
\* or without TO_BLOCK, and with get() calls that fail.
InitPaging ==
    /\ prog = "scan"
    /\ variant \in {"ts", "mjs"}
    /\ pages \in PageLayouts
    /\ pc = "positioned"
    /\ queryFrom = FromBlock
    /\ runStart = FromBlock
    /\ reqCursor = 0
    /\ inFlight = 0
    /\ res = NoRes
    /\ idx = 1
    /\ buffers = EmptyShards
    /\ bufferedLines = 0
    /\ shardFiles = EmptyShards
    /\ stateFile = NoFile
    /\ outFile = <<>>
    /\ kills = 0
    /\ endStyle \in {"height", "noCursor"}
    /\ toBlock \in {0} \cup ((FromBlock + 1)..ArchiveHeight)
    /\ fetchFails = 0
    /\ attempts = 0
    /\ conc = 0 /\ IdleMap /\ IdleMs /\ IdleRpc /\ IdleStore /\ IdleMerge
    /\ IdleLabel /\ IdleAuth /\ IdleHist /\ IdleParse /\ IdleStart
    /\ IdleRlp

\* backoffMs = Math.min(30_000, 250 * 2 ** Math.min(10, attempts))
scanBackoffMs(n) == Min(30000, 250 * Pow2(Min(10, n)))

\* await hypersyncClient.get(query) rejects.  The .ts loop catches, counts
\* the attempt and sleeps; the .mjs loop has no handler: main() rejects and
\* main().catch exits the process with code 1.
GetFails ==
    /\ prog = "scan" /\ pc = "fetching"
    /\ fetchFails < MaxFetchFails
    /\ fetchFails' = fetchFails + 1
    /\ inFlight' = inFlight - 1
    /\ IF variant = "ts"
       THEN /\ attempts' = attempts + 1
            /\ pc' = "backoff"
            /\ UNCHANGED <<buffers, bufferedLines>>
       ELSE /\ attempts' = attempts
            /\ pc' = "failed"
            /\ buffers' = EmptyShards
            /\ bufferedLines' = 0
    /\ UNCHANGED <<mapVars, msVars, rpcVars, mergeVars, storeVars>>
    /\ UNCHANGED <<labelVars, authVars, histVars, parseVars, startVars, rlpVars,
                 endStyle, toBlock>>
    /\ UNCHANGED <<prog, variant, pages, queryFrom, runStart, reqCursor, res, idx,
                   shardFiles, stateFile, outFile, kills>>

\* The backoff sleep of scanBackoffMs(attempts) is over: next loop iteration.
RetryAfterBackoff ==
    /\ prog = "scan" /\ pc = "backoff"
    /\ scanBackoffMs(attempts) > 0
    /\ pc' = "positioned"
    /\ UNCHANGED <<mapVars, msVars, rpcVars, mergeVars, extVars, storeVars>>
    /\ UNCHANGED <<prog, variant, pages, queryFrom, runStart, reqCursor, inFlight,
                   res, idx, buffers, bufferedLines, shardFiles, stateFile,
                   outFile, kills>>

NextPaging == NextScan \/ GetFails \/ RetryAfterBackoff


\* ------------------------------------------------------- scan: claims
\* Authorities of the pages with cursor in lo..hi-1.
AuthoritiesIn(lo, hi) ==
    UNION {Range(pages[c]) : c \in {k \in FromBlock..(ArchiveHeight - 1) : lo <= k /\ k < hi}}

Durable == UNION {Range(shardFiles[s]) : s \in Shards}

\* What a scan that is never killed leaves in OUTPUT_FILE.
UninterruptedOutput ==
    buildUniqueAddressFileFromShards(
        [s \in Shards |->
            SortedSeq({a \in AuthoritiesIn(FromBlock, ArchiveHeight) : shardForAddress(a) = s})])

\* C1: a scan killed at any point and restarted with the resume flag ends
\* with the same finalized authority address set as an uninterrupted scan.
C1_ResumeSameAddressSet ==
    (prog = "scan" /\ pc = "done") => outFile = UninterruptedOutput

\* C2: whenever the persisted checkpoint holds cursor c, every authority of
\* the pages processed before c is already in the durable shard files.
C2_CheckpointedPagesDurable ==
    (prog = "scan" /\ stateFile.kind = "json") =>
        AuthoritiesIn(FromBlock, stateFile.nextBlock) \subseteq Durable


C4_CheckpointNeverTorn ==
    stateFile.kind # "torn" /\ ckptFile.kind # "torn"

\* --------------------------------------------------- market-share: claims
\* The delegate each eth_getCode answer designates, written out.
DelegateA == <<"0", "x">> \o Rep("a", AddrHexLen)
DelegateB == <<"0", "x">> \o Rep("b", AddrHexLen)
designatedBy(code) ==
    IF code = CodeD1Upper THEN DelegateA
    ELSE IF code = CodeD2Extra THEN DelegateB
    ELSE Undefined

okCandidates == {i \in DOMAIN codeOf : codeOf[i] # RpcFail}
delegateOf(i) == designatedBy(codeOf[i])
delegatedCandidates == {i \in okCandidates : delegateOf(i) # Undefined}

\* What one pass over the whole candidate list must report.
ExpectedCounts ==
    [d \in {delegateOf(i) : i \in delegatedCandidates} |->
        Cardinality({i \in delegatedCandidates : delegateOf(i) = d})]
ExpectedExtra == Cardinality({i \in okCandidates : codeOf[i] = CodeD2Extra})
ExpectedFailures == Cardinality(DOMAIN codeOf) - Cardinality(okCandidates)

\* C5: a market-share computation killed at any point and restarted with
\* RESUME=true ends with the per-delegate counts, currentlyDelegated,
\* extra-byte counter and failure counter of an uninterrupted run.
C5_ResumeSameCounts ==
    (prog = "ms" /\ pc = "done") =>
        /\ counts = ExpectedCounts
        /\ currentlyDelegated = Cardinality(delegatedCandidates)
        /\ extraBytesCount = ExpectedExtra
        /\ rpcFailures = ExpectedFailures

\* A run that was killed, resumed in the middle of the list, and finished
\* with delegations, an extra-byte payload and a failure on record.
C5_Witness ==
    /\ prog = "ms" /\ pc = "done" /\ kills > 0
    /\ runStart > 0 /\ runStart < NumCand
    /\ currentlyDelegated > 1 /\ extraBytesCount > 0 /\ rpcFailures > 0

reportRows == report.delegates
reportDelegates == {reportRows[i].delegate : i \in 1..Len(reportRows)}

\* C15: the report lists each delegate once, with the number of distinct
\* candidate addresses whose eth_getCode call succeeded and whose code
\* designates it; two candidates designating the same delegate and no other
\* delegation give one row with count 2 and share 1.
C15_CountIsDistinctDelegators ==
    (prog = "ms" /\ pc = "done") =>
        /\ reportDelegates = DOMAIN ExpectedCounts
        /\ Len(reportRows) = Cardinality(DOMAIN ExpectedCounts)
        /\ \A i \in 1..Len(reportRows) :
              reportRows[i].count = ExpectedCounts[reportRows[i].delegate]
        /\ report.candidates = Cardinality(Range(candidates))
        /\ (Cardinality(delegatedCandidates) = 2 /\ Cardinality(DOMAIN ExpectedCounts) = 1) =>
              /\ Len(reportRows) = 1
              /\ reportRows[1].count = 2
              /\ reportRows[1].share = <<2, 2>>

\* A candidate file listing one address twice; the two distinct candidates
\* designate the same delegate.
C15_Witness ==
    /\ prog = "ms" /\ pc = "done" /\ kills = 0
    /\ Cardinality(Range(candidates)) < Len(candidates)
    /\ Len(reportRows) = 1 /\ reportRows[1].count = 2 /\ reportRows[1].share = <<2, 2>>

\* C16: a failed eth_getCode call adds one to rpcFailures and nothing to any
\* count or to currentlyDelegated, its result slot stays undefined, no item
\* of a chunk is passed to the callback twice, and the pass still handles
\* every other address: at the end the failures are the failing candidates
\* and the counts are those of all the others.
C16_FailureCountedAndIsolated ==
    /\ [][\A w \in Workers :
            (prog = "ms" /\ pc = "chunk" /\ pc' = "chunk" /\ wst[w] = "busy"
                /\ witem'[w] # witem[w] /\ codeOf[items[witem[w] + 1]] = RpcFail) =>
              /\ rpcFailures' = rpcFailures + 1
              /\ results'[witem[w] + 1] = Undefined
              /\ counts' = counts
              /\ currentlyDelegated' = currentlyDelegated
              /\ extraBytesCount' = extraBytesCount]_vars
    /\ [][(prog = "ms" /\ pc = "chunk" /\ pc' = "checkpoint") =>
            /\ \A i \in 1..Len(items) : calls[i] = 1
            /\ currentlyDelegated' - currentlyDelegated =
                  Cardinality({i \in 1..Len(items) : items[i] \in delegatedCandidates})]_vars
    /\ []((prog = "ms") => \A i \in DOMAIN calls : calls[i] <= 1)
    /\ []((prog = "ms" /\ pc = "done") =>
            /\ rpcFailures = ExpectedFailures
            /\ counts = ExpectedCounts
            /\ currentlyDelegated = Cardinality(delegatedCandidates))

\* The first address of a single chunk fails and the addresses after it are
\* counted.
C16_Witness ==
    /\ prog = "ms" /\ pc = "done" /\ kills = 0
    /\ Len(candidates) = Cardinality(Range(candidates))
    /\ chunkSize = NumCand /\ conc = 1
    /\ codeOf[1] = RpcFail /\ rpcFailures = 1 /\ currentlyDelegated = NumCand - 1

\* Address strings compare character by character in code-unit order.
CharOrder == <<"0", "1", "2", "3", "4", "5", "6", "7", "8", "9",
              "a", "b", "c", "d", "e", "f", "x">>
charRank(ch) == CHOOSE k \in 1..Len(CharOrder) : CharOrder[k] = ch
strLess(a, b) ==
    \E i \in 1..Min(Len(a), Len(b)) :
        /\ \A j \in 1..(i - 1) : a[j] = b[j]
        /\ charRank(a[i]) < charRank(b[i])

\* C17: the ranking is ordered by count descending, and delegates of equal
\* count are ordered by address value.
C17_RankedByCountThenAddress ==
    (prog = "ms" /\ pc = "done") =>
        \A i \in 1..(Len(reportRows) - 1) :
            \/ reportRows[i].count > reportRows[i + 1].count
            \/ /\ reportRows[i].count = reportRows[i + 1].count
               /\ strLess(reportRows[i].delegate, reportRows[i + 1].delegate)

RECURSIVE sumOfCounts(_, _)
sumOfCounts(rows, k) == IF k = 0 THEN 0 ELSE rows[k].count + sumOfCounts(rows, k - 1)

\* C18: every row's share is count / currentlyDelegated when
\* currentlyDelegated is positive, the counts then add up to
\* currentlyDelegated (the shares to the whole), and the share is 0 when
\* currentlyDelegated is 0.
C18_ShareIsCountOverDelegated ==
    /\ (prog = "ms" /\ pc = "done") =>
          /\ report.currentlyDelegated = currentlyDelegated
          /\ \A i \in 1..Len(reportRows) :
                IF currentlyDelegated > 0
                THEN reportRows[i].share = <<reportRows[i].count, currentlyDelegated>>
                ELSE reportRows[i].share = ZeroShare
          /\ currentlyDelegated > 0 =>
                sumOfCounts(reportRows, Len(reportRows)) = currentlyDelegated
          /\ currentlyDelegated = 0 => Len(reportRows) = 0
    /\ \A c \in 0..NumCand : share(c, 0) = ZeroShare

\* Two delegates with shares 2/3 and 1/3.
C18_Witness ==
    /\ prog = "ms" /\ pc = "done" /\ currentlyDelegated = 3
    /\ Len(reportRows) = 2
    /\ reportRows[1].share = <<2, 3>> /\ reportRows[2].share = <<1, 3>>

\* --------------------------------------------- mapWithConcurrency: claims
\* C6: mapWithConcurrency returns an array of items.length entries in which
\* results[i] is the value fn returned for items[i], whatever the completion
\* order and the concurrency.
C6_ResultsMatchItems ==
    (prog = "map" /\ mapStatus = "resolved") =>
        /\ Len(results) = Len(items)
        /\ \A i \in 1..Len(items) : results[i] = fnValue(items[i], i - 1)

C6_Witness ==
    /\ prog = "map" /\ mapStatus = "resolved"
    /\ Len(items) = MaxItems /\ started >= 2 /\ items[1] # items[2]

mapQuiescent == mapStatus # "idle" /\ \A w \in Workers : wst[w] # "busy"

C8_OtherItemsStillProcessed ==
    (prog = "map" /\ conc >= 1 /\ Cardinality(fnThrows) = 1 /\ mapQuiescent) =>
        \A i \in 1..Len(items) : calls[i] >= 1

\* ------------------------------------------------------- rpcCall: claims
success(r) == resOk(r) /\ ~r.hasError

\* C9: with only 429 responses rpcCall makes maxRetries retries and
\* maxRetries + 1 requests, then fails; a successful response is returned at
\* once, with no further request.
C9_RetriesThenFails ==
    prog = "rpc" =>
        /\ (only429 /\ pc = "threw") => (retries = maxRetries /\ requests = maxRetries + 1)
        /\ (only429 /\ requests > 0) => (pc # "returned" /\ requests <= maxRetries + 1)
        /\ (only429 /\ pc = "attempt") => (attempt <= maxRetries /\ retries = attempt)
        /\ success(lastResp) => (pc = "returned" /\ requests = attempt + 1)
        /\ pc = "returned" => success(lastResp)

C9_Witness ==
    /\ prog = "rpc" /\ pc = "threw" /\ only429
    /\ maxRetries = MaxRetriesBound /\ requests = MaxRetriesBound + 1

\* C10 as stated: status 429, 408 and every status from 500 to 599, and
\* every JSON-RPC error matching the heuristics, is retried while attempts
\* remain.
claimedRetryable(r) ==
    \/ r.status \in {429, 408}
    \/ 500 <= r.status /\ r.status <= 599
    \/ resOk(r) /\ r.hasError /\ jsonRetryable(r.msg)

C10_All5xxRetried ==
    (prog = "rpc" /\ pc = "threw" /\ attempt < maxRetries) => ~claimedRetryable(lastResp)

\* C10 amended: status 429, 408, 500, 502, 503 and 504 (not the other 5xx
\* statuses), and every JSON-RPC error whose message contains "rate",
\* "limit" or "timeout" in any letter case, is retried while attempts
\* remain: rpcCall backs off and sends the request again instead of failing.
listedRetryable(r) ==
    \/ r.status \in {429, 408, 500, 502, 503, 504}
    \/ r.status = 200 /\ r.hasError /\
        \E m \in {MsgRateUpper, MsgLimit, MsgTimeoutUpper} : r.msg = m

C10_ListedStatusesRetried ==
    prog = "rpc" =>
        /\ (pc = "threw" /\ attempt < maxRetries) => ~listedRetryable(lastResp)
        /\ listedRetryable(lastResp) => pc # "returned"
        /\ (listedRetryable(lastResp) /\ pc \in {"attempt", "waiting"}) =>
              (retries = attempt /\ attempt >= 1 /\ slept >= backoffMs(attempt - 1))

C10_Witness ==
    /\ prog = "rpc" /\ pc = "waiting" /\ attempt = 1 /\ requests = 2
    /\ lastResp.status = 503 /\ slept >= 250

\* C11: a non-retryable HTTP status, or a JSON-RPC error whose message does
\* not match the retry heuristics, makes rpcCall fail on that very attempt,
\* with no backoff sleep and no further request, whatever the number of
\* attempts that remain.
failsAtOnce(r) ==
    \/ r.status \notin {429, 408, 500, 502, 503, 504} /\ ~(200 <= r.status /\ r.status <= 299)
    \/ r.status = 200 /\ r.hasError /\ r.msg \in {MsgReverted, MsgNotString}

C11_NonRetryableFailsAtOnce ==
    /\ [][(prog = "rpc" /\ pc = "waiting" /\ failsAtOnce(lastResp')) =>
            (pc' = "threw" /\ slept' = slept /\ retries' = retries
                /\ requests' = requests /\ attempt' = attempt)]_vars
    /\ [][(prog = "rpc" /\ pc = "threw") => (requests' = requests /\ slept' = slept)]_vars
    /\ []((prog = "rpc" /\ lastResp \in Responses /\ failsAtOnce(lastResp)) => (pc = "threw" /\ requests = attempt + 1))

\* After one retry a "reverted" JSON-RPC error ends the call although an
\* attempt remains.
C11_Witness ==
    /\ prog = "rpc" /\ pc = "threw" /\ attempt = 1 /\ maxRetries = MaxRetriesBound
    /\ lastResp.hasError /\ lastResp.msg = MsgReverted /\ requests = 2

\* The sleep that preceded the current attempt followed attempt number
\* attempt - 1.
backoffBase(k) == Min(maxDelayMs, baseDelayMs * Pow2(k))
jitterSpan(k) == Min(250, backoffBase(k))

\* C12 as stated: every retry sleep d satisfies B <= d < B + min(250, B).
C12_SleepWithinJitterWindow ==
    (prog = "rpc" /\ slept # -1) =>
        /\ backoffBase(attempt - 1) <= slept
        /\ slept < backoffBase(attempt - 1) + jitterSpan(attempt - 1)

\* C12 amended: every retry sleep d satisfies B <= d < B + min(250, B) when
\* B > 0 and d = B = 0 when the base or the maximum delay is 0; no sleep
\* exceeds maxDelay + 250 ms; B never decreases as the attempt number grows.
C12_SleepWithinJitterWindowOrZero ==
    prog = "rpc" =>
        /\ slept # -1 =>
              /\ attempt >= 1
              /\ backoffBase(attempt - 1) <= slept
              /\ backoffBase(attempt - 1) > 0 =>
                    slept < backoffBase(attempt - 1) + jitterSpan(attempt - 1)
              /\ backoffBase(attempt - 1) = 0 => slept = 0
              /\ slept <= maxDelayMs + 250
        /\ \A k \in 0..MaxRetriesBound : backoffBase(k) <= backoffBase(k + 1)

\* The second retry sleep, capped by the maximum delay.
C12_Witness ==
    /\ prog = "rpc" /\ attempt = 2 /\ baseDelayMs = 250 /\ maxDelayMs = 400
    /\ slept > 400

\* ----------------------------------------------------- shard store: claims
\* C13: after any sequence of appends and flushes, the finalized address file
\* is sorted ascending without a duplicate line, holds exactly the addresses
\* ever appended, and the returned total is their number.
C13_FinalizedSortedUnique ==
    (prog = "store" /\ finalized >= 1) =>
        /\ \A i \in 1..(Len(outFile) - 1) : outFile[i] < outFile[i + 1]
        /\ Range(outFile) = appended
        /\ totalUnique = Cardinality(appended)
        /\ Len(outFile) = totalUnique

\* An address appended twice, in two shards' worth of addresses, with a
\* flush between the appends and a line still buffered at finalize.
C13_Witness ==
    /\ prog = "store" /\ finalized = 1
    /\ TotalLines = MaxAppends /\ totalUnique = 2
    /\ 0 \in appended /\ MaxAddr \in appended

\* C14: a second finalize with no append in between leaves the output file
\* and the returned count as the first one made them.
C14_RefinalizeIdempotent ==
    [][(prog = "store" /\ finalized >= 1 /\ finalized' = finalized + 1) =>
          (outFile' = outFile /\ totalUnique' = totalUnique)]_vars

C14_Witness ==
    /\ prog = "store" /\ finalized = 2 /\ Len(outFile) >= 2

\* ------------------------------------------------------------ merge: claims
RECURSIVE countIn(_, _, _)
countIn(rows, d, k) ==
    IF k = 0 THEN 0
    ELSE (IF toLowerCase(rows[k].delegate) = d THEN rows[k].count ELSE 0)
         + countIn(rows, d, k - 1)

namesIn(rows) == {toLowerCase(rows[k].delegate) : k \in 1..Len(rows)}

mergedRows == mergedJson.delegates

\* C19: the merged report lists every delegate of either input once, under
\* its lower-case address, with the sum of its counts in the two inputs;
\* candidates and currentlyDelegated are the sums of the inputs' values;
\* {X:3} total 3 merged with {X:2, Y:5} total 7 gives {X:5, Y:5} total 10.
C19_MergeSumsPerDelegate ==
    (prog = "merge" /\ pc \in {"jsonWritten", "done"}) =>
        /\ {mergedRows[i].delegate : i \in 1..Len(mergedRows)}
              = namesIn(repA.delegates) \cup namesIn(repB.delegates)
        /\ Len(mergedRows) = Cardinality(namesIn(repA.delegates) \cup namesIn(repB.delegates))
        /\ \A i \in 1..Len(mergedRows) :
              mergedRows[i].count =
                  countIn(repA.delegates, mergedRows[i].delegate, Len(repA.delegates))
                  + countIn(repB.delegates, mergedRows[i].delegate, Len(repB.delegates))
        /\ mergedJson.candidates = repA.candidates + repB.candidates
        /\ mergedJson.currentlyDelegated = repA.currentlyDelegated + repB.currentlyDelegated
        /\ (/\ repA.delegates = <<[delegate |-> DelegateX, count |-> 3]>>
            /\ repB.delegates = <<[delegate |-> DelegateX, count |-> 2],
                                  [delegate |-> DelegateY, count |-> 5]>>) =>
              /\ mergedJson.currentlyDelegated = 10
              /\ {<<mergedRows[i].delegate, mergedRows[i].count>> : i \in 1..Len(mergedRows)}
                    = {<<DelegateX, 5>>, <<DelegateY, 5>>}

\* X:3 merged with X (in upper case):2 and Y:5.
C19_Witness ==
    /\ prog = "merge" /\ pc = "done"
    /\ repA.delegates = <<[delegate |-> DelegateX, count |-> 3]>>
    /\ repB.delegates = <<[delegate |-> DelegateXUpper, count |-> 2],
                          [delegate |-> DelegateY, count |-> 5]>>
    /\ mergedJson.currentlyDelegated = 10 /\ Len(mergedRows) = 2

\* C20: when the chain identifiers of the two inputs differ the merge fails
\* before it writes: the merged JSON and CSV files are neither created nor
\* modified.
C20_ChainMismatchWritesNothing ==
    /\ [][(prog = "merge" /\ repA.chain # repB.chain) =>
            (mergedJson' = mergedJson /\ mergedCsv' = mergedCsv
                /\ pc' \in {"merge", "threw"})]_vars
    /\ []((prog = "merge" /\ repA.chain # repB.chain) =>
            (pc \in {"merge", "threw"} /\ mergedJson \in {NoFile, OldFile}
                /\ mergedCsv = mergedJson))

\* The merge has failed and an output of an earlier merge is still there.
C20_Witness ==
    /\ prog = "merge" /\ pc = "threw" /\ repA.chain # repB.chain
    /\ coinbaseMismatch(repA, repB) = FALSE
    /\ mergedJson = OldFile /\ mergedCsv = OldFile

\* Sum of the counts of the rows of a labelled report.
keptTotal(out) == sumRowCounts(out.delegates, Len(out.delegates))

\* C21: filter-to-labeled partitions the input rows into kept and dropped:
\* the kept count total plus the reported dropped count total is the sum of
\* the input counts, the kept rows plus the dropped rows are the input rows,
\* and every kept row's share is its count over the kept total (0 when the
\* kept total is 0).
C21_FilterPartitionsRows ==
    /\ \A c \in 0..MaxRows : share(c, 0) = ZeroShare
    /\ (prog = "filter" /\ pc \in {"jsonWritten", "done"}) =>
         LET out == labeledJson
             rows == msInput.delegates
         IN /\ keptTotal(out) + out.dropped.currentlyDelegated
                  = sumRowCounts(rows, Len(rows))
            /\ Len(out.delegates) + out.dropped.uniqueDelegates = Len(rows)
            /\ out.currentlyDelegated = keptTotal(out)
            /\ \A i \in 1..Len(out.delegates) :
                  out.delegates[i].share =
                      IF keptTotal(out) # 0
                      THEN <<out.delegates[i].count, keptTotal(out)>>
                      ELSE <<0, 1>>

\* A finished filter run that kept one row and dropped another.
C21_Witness ==
    /\ prog = "filter" /\ pc = "done"
    /\ Len(labeledJson.delegates) >= 1
    /\ labeledJson.dropped.uniqueDelegates >= 1
    /\ labeledJson.dropped.currentlyDelegated >= 2

RECURSIVE sumMembers(_, _)
sumMembers(rows, k) == IF k = 0 THEN 0 ELSE rows[k].members + sumMembers(rows, k - 1)

\* C22: relabel-by-group conserves totals in both unlabeled modes: the sum
\* of the group counts is the sum of the input delegate counts, and the sum
\* of the group member counts is the number of input rows.
C22_RelabelConservesTotals ==
    (prog = "relabel" /\ pc \in {"jsonWritten", "done"}) =>
        LET out == labeledJson.delegates
            rows == msInput.delegates
        IN /\ unlabeledMode \in {"group", "keep"}
           /\ sumRowCounts(out, Len(out)) = sumRowCounts(rows, Len(rows))
           /\ sumMembers(out, Len(out)) = Len(rows)

\* A finished run in group mode whose rows fell into fewer groups than rows,
\* one of them the Unlabeled group.
C22_Witness ==
    /\ prog = "relabel" /\ pc = "done" /\ unlabeledMode = "group"
    /\ Len(msInput.delegates) = MaxRows
    /\ Len(labeledJson.delegates) < Len(msInput.delegates)
    /\ \E i \in 1..Len(labeledJson.delegates) :
          labeledJson.delegates[i].delegate = Unlabeled

\* A tuple all of whose fields are written in a well-formed way.
validTuple(a) == \A f \in Fields : a.kinds[f] \in GoodKinds[f]

\* The transaction processed last.
lastTxn == txns[txi - 1]

errorName(f) == IF f = "address" THEN "delegate address" ELSE f
malformedFields(a) == {f \in Fields : a.kinds[f] \in BadKinds[f]}

\* C24: recoverAuthorityFromAuthorization returns no address and fails with
\* an error naming an offending field whenever yParity is not 0 or 1, r or s
\* is not hex of at most 32 bytes, or the delegate address is not 20-byte
\* hex; the scanner catches the error and goes on with the next
\* transaction, so the loop always runs through the whole response.
C24_MalformedTupleRejectedAndCaught ==
    /\ (prog = "auths" /\ txi > 1
        /\ malformedFields(lastTxn.auth) \cap {"yParity", "r", "s", "address"} # {}) =>
          /\ lastRecovery.ok = FALSE
          /\ lastRecovery.address = <<>>
          /\ lastRecovery.error \in {errorName(f) : f \in malformedFields(lastTxn.auth)}
          /\ pc \in {"processing", "done"}
    /\ (prog = "auths" /\ pc = "done") => txi = Len(txns) + 1

\* The response has been processed to its end although its first tuple had
\* a yParity out of range; the tuple after it was recovered.
C24_Witness ==
    /\ prog = "auths" /\ pc = "done" /\ Len(txns) = 2
    /\ malformedFields(txns[1].auth) = {"yParity"}
    /\ validTuple(txns[2].auth)
    /\ recoveredAuthority = 1
    /\ lastRecovery.ok

\* Number of pushed lines whose address was obtained in one of the ways.
linesOfOrigin(origins) == Cardinality({i \in DOMAIN lineOrigin : lineOrigin[i] \in origins})

\* After a failed recovery the authority is the sender of the transaction.
fallbackIsSender ==
    (prog = "auths" /\ txi > 1 /\ ~lastRecovery.ok
     /\ authorityOf(variant, lastTxn) # NoAddress) =>
        authLines[Len(authLines)] = senderOf(lastTxn)

\* Fallback addresses are counted in the fallback counter and only there.
fallbackCountedApart ==
    prog = "auths" =>
        /\ recoveredAuthority = linesOfOrigin({"recovered"})
        /\ fallbackToTxFrom = linesOfOrigin({"txFrom", "authField"})

\* What was pushed tells a fallback address from a recovered one.
fallbackDistinguishable ==
    prog = "auths" =>
        \A i, j \in DOMAIN authLines :
            authLines[i] = authLines[j] =>
                (lineOrigin[i] = "recovered" <=> lineOrigin[j] = "recovered")

\* C25: when recovery fails the scanner falls back to the sender of the
\* transaction; the fallback address is counted in the fallback counter
\* only, never in the recovered counter, and it never joins the recovered
\* authorities without remaining distinguishable as a fallback.
C25_FallbackCountedAndDistinguishable ==
    fallbackIsSender /\ fallbackCountedApart /\ fallbackDistinguishable

\* A response that reports the end of the scan: no nextBlock, or nextBlock
\* at or beyond the archive height or the upper bound of the query.
endReported(r) ==
    \/ r.nextBlock = 0
    \/ r.archiveHeight # 0 /\ r.nextBlock >= r.archiveHeight
    \/ toBlock # 0 /\ r.nextBlock >= toBlock

\* The loop is left as soon as a processed response reports the end.
stopsWhenEndReported ==
    [][(prog = "scan" /\ pc = "written" /\ endReported(res) /\ pc' # "dead")
          => pc' = "finalize"]_vars

\* Leaving the loop is followed by the final flush and the finalize.
finalizesAfterLoop ==
    [][(prog = "scan" /\ pc = "finalize" /\ pc' # "dead")
          => /\ pc' = "done"
             /\ buffers' = EmptyShards
             /\ outFile' = buildUniqueAddressFileFromShards(shardFiles')]_vars

\* C26: the paginated scan eventually reaches Done: it stops requesting
\* pages as soon as a response reports no further cursor (nextBlock absent),
\* or a nextBlock at or beyond the archive height or the explicit upper
\* bound, and then performs the final flush and the finalize.  (A process
\* that has exited on a failed request is set aside here.)
C26_ScanReachesDone ==
    /\ stopsWhenEndReported
    /\ finalizesAfterLoop
    /\ (prog = "scan") ~> (pc \in {"done", "failed"})

\* A step in which the pending get() call fails.
fetchFailsNow == prog = "scan" /\ pc = "fetching" /\ fetchFails' = fetchFails + 1

\* A failed fetch leads to the backoff, not to the end of the scan, and
\* leaves the cursor and the checkpoint alone.
failureBacksOff ==
    fetchFailsNow => /\ pc' = "backoff"
                     /\ queryFrom' = queryFrom
                     /\ stateFile' = stateFile

\* The request sent after a failed one carries the cursor of the failed one.
retrySendsSameCursor ==
    (prog = "scan" /\ pc = "positioned" /\ attempts > 0 /\ pc' = "fetching")
        => reqCursor' = reqCursor

\* Within a run the cursor moves only once every authorization of a fetched
\* page has been processed, and the checkpoint is written only after that.
advanceOnlyAfterProcessing ==
    /\ (prog = "scan" /\ pc # "dead" /\ queryFrom' # queryFrom)
          => pc = "processing" /\ idx > Len(res.auths)
                /\ queryFrom' = res.nextBlock
    /\ (prog = "scan" /\ stateFile' # stateFile)
          => pc \in {"checkpoint", "writing"} /\ queryFrom = res.nextBlock

\* C27: when a page fetch fails transiently, the scanner backs off and
\* requests the same page again with an unchanged cursor; the cursor and the
\* persisted checkpoint advance only after a page has been fetched and
\* processed successfully, and a transient failure never ends the scan.
C27_FetchFailureRetriesSamePage ==
    [][failureBacksOff /\ retrySendsSameCursor /\ advanceOnlyAfterProcessing]_vars

\* The count the report gives delegate d, 0 when it has no row.
reportedCount(d) ==
    IF d \in reportDelegates
    THEN reportRows[CHOOSE i \in 1..Len(reportRows) : reportRows[i].delegate = d].count
    ELSE 0

\* The candidates whose code names d now.
liveDelegators(d) == {i \in delegatedCandidates : delegateOf(i) = d}

\* C28: the market-share report is a function only of the candidate address
\* set and of the eth_getCode(latest) responses: every run over the same
\* candidates and the same code responses ends with the same counts, whatever
\* delegate the candidates' historical authorization tuples named.
C28_ReportFromLiveStateOnly ==
    (prog = "ms" /\ pc = "done") =>
        /\ reportDelegates = DOMAIN ExpectedCounts
        /\ \A d \in HistoricalDelegates \cup reportDelegates :
              reportedCount(d) = Cardinality(liveDelegators(d))
        /\ report.currentlyDelegated = Cardinality(delegatedCandidates)

\* A finished run in which one candidate's tuple named delegate a while its
\* code is empty now, another's named a while its code designates b, and the
\* report has no row for a.
C28_Witness ==
    /\ prog = "ms" /\ pc = "done"
    /\ \E i, j \in DOMAIN named :
          /\ named[i] = DelegateA /\ codeOf[i] = CodeEmpty
          /\ named[j] = DelegateA /\ delegateOf(j) = DelegateB
    /\ DelegateA \notin reportDelegates
    /\ reportedCount(DelegateB) > 0

\* The code string starts with the bytes ef 01 00, written in hex after 0x.
beginsWithMarker(code) ==
    /\ Len(code) >= 8
    /\ code[1] = "0" /\ code[2] \in {"x", "X"}
    /\ code[3] \in {"e", "E"} /\ code[4] \in {"f", "F"}
    /\ code[5] = "0" /\ code[6] = "1" /\ code[7] = "0" /\ code[8] = "0"

\* The 20 bytes after the marker, as a lower-case address.
twentyBytesAfterMarker(code) == <<"0", "x">> \o toLowerCase(SubSeq(code, 9, 8 + AddrHexLen))

reportsDelegate == parsed.delegate # Undefined

hasTrailingBytes(code) ==
    code # RpcFail /\ beginsWithMarker(code) /\ Len(code) > 8 + AddrHexLen

trailingCandidates == {i \in DOMAIN codeOf : hasTrailingBytes(codeOf[i])}

\* C30: when an account's code is the marker plus 20 delegate bytes followed
\* by extra trailing bytes, the market-share computer increments the
\* extra-byte counter by one and still counts that account for the delegate
\* given by the first 20 bytes after the marker.
C30_ExtraBytesFlaggedAndCounted ==
    /\ [][\A w \in Workers :
            (prog = "ms" /\ pc = "chunk" /\ pc' = "chunk" /\ wst[w] = "busy"
                /\ witem'[w] # witem[w]
                /\ hasTrailingBytes(codeOf[items[witem[w] + 1]])) =>
              /\ extraBytesCount' = extraBytesCount + 1
              /\ rpcFailures' = rpcFailures
              /\ results'[witem[w] + 1] =
                    twentyBytesAfterMarker(codeOf[items[witem[w] + 1]])]_vars
    /\ [][(prog = "ms" /\ pc = "chunk" /\ pc' = "checkpoint") =>
            currentlyDelegated' - currentlyDelegated >=
                Cardinality({i \in 1..Len(items) : items[i] \in trailingCandidates})]_vars
    /\ []((prog = "ms" /\ pc = "done") =>
            /\ extraBytesCount = Cardinality(trailingCandidates)
            /\ report.hasExtraBytesCount = Cardinality(trailingCandidates)
            /\ \A i \in trailingCandidates :
                  /\ delegateOf(i) \in reportDelegates
                  /\ reportedCount(delegateOf(i)) = Cardinality(liveDelegators(delegateOf(i))))

\* A finished run over a list in which one candidate carries the payload with
\* trailing bytes and no other candidate designates the same delegate: the
\* counter is 1 and the delegate has a row with count 1.
C30_Witness ==
    /\ prog = "ms" /\ pc = "done"
    /\ Cardinality(trailingCandidates) = 1
    /\ extraBytesCount = 1
    /\ \E i \in trailingCandidates :
          /\ delegateOf(i) = DelegateB
          /\ reportedCount(DelegateB) = 1
    /\ currentlyDelegated > 1

\* The label table relabel-by-group works from, and the rows of its output.
labelMap == byAddr(labelsFile, Len(labelsFile))
groupsOut == labeledJson.delegates

\* The input rows that fall into the group with key k, and the categories
\* their labels carry.
membersOf(k) ==
    {i \in 1..Len(msInput.delegates) :
        groupKey(labelMap, normalizeAddress(msInput.delegates[i].delegate),
                 unlabeledMode) = k}
memberCategories(k) ==
    {categoryOf(labelMap, normalizeAddress(msInput.delegates[i].delegate)) :
        i \in membersOf(k)} \ {NoCategory}

\* C31: a relabelled group's category is the single category shared by its
\* labelled members, and is the sentinel Mixed whenever two members of the
\* group carry different categories (a group none of whose members carries a
\* category has none).
C31_GroupCategoryCommonOrMixed ==
    (prog = "relabel" /\ pc \in {"jsonWritten", "done"}) =>
        \A g \in 1..Len(groupsOut) :
            LET cats == memberCategories(groupsOut[g].delegate)
            IN /\ Cardinality(cats) = 0 => groupsOut[g].category = NoCategory
               /\ Cardinality(cats) = 1 => groupsOut[g].category \in cats
               /\ Cardinality(cats) >= 2 => groupsOut[g].category = "Mixed"

\* A finished run with a group of two members under different categories.
C31_Witness ==
    /\ prog = "relabel" /\ pc = "done"
    /\ \E g \in 1..Len(groupsOut) :
          /\ groupsOut[g].members = 2
          /\ Cardinality(memberCategories(groupsOut[g].delegate)) = 2
          /\ groupsOut[g].category = "Mixed"

\* The state file a starting scan finds is readable and holds a positive
\* nextBlock.
readableCheckpoint == stateFile.kind = "json" /\ stateFile.nextBlock > 0

\* C32: at scan start, if the resume flag is set and a readable checkpoint
\* with a positive nextBlock exists, the first page request uses that
\* nextBlock as its cursor; in every other case (flag unset, checkpoint
\* missing or unreadable) it uses the explicit FROM_BLOCK, or the default
\* start block when none is given.
C32_FirstCursorFromCheckpointOrFromBlock ==
    (prog = "scan" /\ pc = "fetching" /\ runStart = queryFrom /\ kills = 0
        /\ resumeEnv \in ResumeValues) =>
        reqCursor = IF resumeEnv = "true" /\ readableCheckpoint
                    THEN stateFile.nextBlock
                    ELSE IF fromBlockEnv.given THEN fromBlockEnv.n
                    ELSE FromBlock

\* The first request of a scan started with RESUME=true and an explicit
\* FROM_BLOCK goes out with the checkpoint's nextBlock, which is neither the
\* explicit nor the default start.
C32_Witness ==
    /\ prog = "scan" /\ pc = "fetching" /\ kills = 0
    /\ resumeEnv = "true" /\ readableCheckpoint /\ fromBlockEnv.given
    /\ reqCursor = stateFile.nextBlock
    /\ reqCursor # fromBlockEnv.n /\ reqCursor # FromBlock

\* ---- C33 ----
\* C33: in authority recovery a chainId or nonce of value 0 is encoded as the
\* empty byte string, in whichever representation (number, string, big
\* integer) it arrived, and a non-zero value as its minimal big-endian bytes.
itemsEncoded == prog = "rlp" /\ pc = "encoded"

C33_ZeroEmptyNonZeroMinimal ==
    itemsEncoded =>
        /\ rlpItems.chainId = minimalBytes(authIn.value.chainId)
        /\ rlpItems.nonce = minimalBytes(authIn.value.nonce)

\* The same statement for the two current copies only.
C33_CurrentCopies ==
    (itemsEncoded /\ recoverModule # "legacy") =>
        /\ rlpItems.chainId = minimalBytes(authIn.value.chainId)
        /\ rlpItems.nonce = minimalBytes(authIn.value.nonce)

\* ---- C34 ----
\* C34: in mapWithConcurrency every index 0..items.length-1 is claimed by
\* exactly one worker: fn is never invoked twice for an item, two workers
\* never hold the same index, each worker has at most one fn call in flight
\* (the calls in flight are as many as the busy workers), and when the pool
\* resolves fn has been invoked exactly once per item, in every interleaving.
busyWorkers == {w \in Workers : wst[w] = "busy"}
thrownWorkers == {w \in Workers : wst[w] = "thrown"}
claimedIndexes == {i \in 1..Len(items) : calls[i] >= 1}
settledIndexes == {i \in 1..Len(items) : results[i] # Unset}
RECURSIVE sumCalls(_)
sumCalls(k) == IF k = 0 THEN 0 ELSE calls[k] + sumCalls(k - 1)

C34_EachIndexClaimedOnce ==
    (prog = "map" /\ mapStatus # "idle") =>
        /\ \A i \in 1..Len(items) : calls[i] <= 1
        /\ \A w1, w2 \in busyWorkers : witem[w1] = witem[w2] => w1 = w2
        /\ \A w \in busyWorkers : calls[witem[w] + 1] = 1 /\ results[witem[w] + 1] = Unset
        /\ sumCalls(Len(items)) - Cardinality(settledIndexes) - Cardinality(thrownWorkers)
              = Cardinality(busyWorkers)
        /\ claimedIndexes = 1..Min(mnext, Len(items))
        /\ mapStatus = "resolved" => \A i \in 1..Len(items) : calls[i] = 1

\* Three items, two workers, one call done, two in flight.
C34_Witness ==
    /\ prog = "map" /\ Len(items) = 3 /\ started = 2 /\ fnThrows = {}
    /\ Cardinality(busyWorkers) = 2 /\ Cardinality(settledIndexes) = 1
    /\ claimedIndexes = {1, 2, 3}

\* The same pool resolved after a late completion of the first call.
C34_WitnessResolved ==
    /\ prog = "map" /\ Len(items) = 3 /\ started = 2 /\ mapStatus = "resolved"
    /\ \A i \in 1..3 : calls[i] = 1

\* ---- C35 ----
\* C35: after the market-share computer resumed from a checkpoint whose
\* nextIndex is n, no candidate at an index below n of the sorted candidate
\* list is queried with eth_getCode again, and within a pass the persisted
\* nextIndex never decreases: nextIndex only grows, every checkpoint written
\* carries it, and a checkpoint on disk is never ahead of it.
resumedPass == prog = "ms" /\ kills >= 1 /\ pc # "dead"
queriedNow == {items[i] : i \in {k \in 1..Len(items) : calls[k] >= 1}}
doneBeforeResume == {uniqueAddresses[k] : k \in 1..runStart}

C35_NoRequeryBelowNextIndex ==
    /\ [][(prog = "ms" /\ pc = "dead" /\ pc' = "loop" /\ ckptFile.kind = "json") =>
            runStart' = ckptFile.nextIndex]_vars
    /\ [](resumedPass => queriedNow \cap doneBeforeResume = {})
    /\ [][(prog = "ms" /\ pc # "dead" /\ pc' # "dead") =>
            /\ nextIndex' >= nextIndex
            /\ (ckptFile' # ckptFile /\ ckptFile'.kind = "json") =>
                  ckptFile'.nextIndex = nextIndex']_vars
    /\ []((prog = "ms" /\ pc # "dead" /\ ckptFile.kind = "json") =>
            ckptFile.nextIndex <= nextIndex)

\* Resumed behind the first candidate, and the next one is being queried.
C35_Witness ==
    /\ resumedPass /\ runStart >= 1 /\ pc = "chunk"
    /\ queriedNow # {} /\ ckptFile.kind = "json" /\ ckptFile.nextIndex = runStart

\* ---- C36 ----
\* C36: at every chunk boundary of the market-share computation, in every
\* checkpoint on disk, after a checkpoint was loaded on resume and in the
\* final report, currentlyDelegated is the sum of the per-delegate counts
\* and currentlyDelegated + rpcFailures is at most nextIndex, the number of
\* addresses processed so far.
RECURSIVE sumOfMap(_)
sumOfMap(m) ==
    IF DOMAIN m = {} THEN 0
    ELSE LET d == CHOOSE x \in DOMAIN m : TRUE
         IN m[d] + sumOfMap([x \in DOMAIN m \ {d} |-> m[x]])

atChunkBoundary == prog = "ms" /\ pc \in {"loop", "checkpoint", "writing", "done"}

C36_DelegatedIsSumOfCounts ==
    /\ atChunkBoundary =>
          /\ currentlyDelegated = sumOfMap(counts)
          /\ currentlyDelegated + rpcFailures <= nextIndex
    /\ (prog = "ms" /\ ckptFile.kind = "json") =>
          /\ ckptFile.currentlyDelegated = sumOfMap(ckptFile.counts)
          /\ ckptFile.currentlyDelegated + ckptFile.rpcFailures <= ckptFile.nextIndex
    /\ (prog = "ms" /\ report.kind = "json") =>
          /\ report.currentlyDelegated = sumOfCounts(report.delegates, Len(report.delegates))
          /\ report.currentlyDelegated + report.rpcFailures <= nextIndex
          /\ nextIndex <= report.candidates

\* A resumed pass that loaded a checkpoint holding a delegation and a
\* failure, finished with the report written.
C36_Witness ==
    /\ prog = "ms" /\ pc = "done" /\ kills >= 1 /\ runStart >= 2
    /\ report.kind = "json" /\ report.currentlyDelegated >= 1 /\ report.rpcFailures >= 1
    /\ ckptFile.kind = "json" /\ ckptFile.currentlyDelegated >= 1

\* Within a chunk the failure counter can be ahead of nextIndex.
C36_MidChunkAhead ==
    prog = "ms" /\ pc = "chunk" /\ currentlyDelegated + rpcFailures > nextIndex

\* ---- C37 ----
\* C37: throughout a type-4 authority scan the recovered counter plus the
\* fallback counter equals the number of addresses appended to the shard
\* store: every appended address is counted in exactly one of the two.
C37_CountersCoverAppended ==
    prog = "auths" => recoveredAuthority + fallbackToTxFrom = Len(authLines)

\* The same statement for the .mjs scanner only.
C37_MjsOnly ==
    (prog = "auths" /\ variant = "mjs") =>
        recoveredAuthority + fallbackToTxFrom = Len(authLines)

\* In the .ts scanner the uncounted lines are those taken from a field of
\* the tuple that names another address than the sender.
C37_TsUncountedAreAuthField ==
    (prog = "auths" /\ variant = "ts") =>
        Len(authLines) - (recoveredAuthority + fallbackToTxFrom)
            = Cardinality({i \in 1..Len(lineOrigin) : lineOrigin[i] = "authField"})

\* ---- C38 ----
\* C38: processing a page a second time does not change the finalized
\* address set: appending an address that is already stored leaves the
\* output of finalize and its count as they were.
storedSet == UNION {Range(shardFiles[s] \o buffers[s]) : s \in Shards}
finalizeOutput == writeOutput(outFile, flushBuffers(shardFiles, buffers))
finalizeCount == countUnique(flushBuffers(shardFiles, buffers), 0)
duplicateAppended == TotalLines' = TotalLines + 1 /\ storedSet' = storedSet

C38_ReappendLeavesFinalizeUnchanged ==
    /\ [][duplicateAppended =>
            /\ finalizeOutput' = finalizeOutput
            /\ finalizeCount' = finalizeCount]_vars
    /\ [][(prog = "store" /\ finalized >= 1 /\ duplicateAppended) =>
            /\ finalizeOutput' = outFile
            /\ finalizeCount' = totalUnique]_vars
    /\ [][(prog = "store" /\ finalized' = finalized + 1) =>
            /\ outFile' = finalizeOutput
            /\ totalUnique' = finalizeCount]_vars

\* A finalize has run, then addresses it had already seen were appended.
C38_Witness ==
    /\ prog = "store" /\ finalized = 0 /\ totalUnique >= 1
    /\ Len(outFile) = totalUnique /\ Cardinality(storedSet) = totalUnique
    /\ TotalLines > totalUnique /\ bufferedLines >= 1

\* The scan: a killed and restarted run ends with a page's addresses twice
\* in a shard file and once in the output.
C38_WitnessScan ==
    /\ prog = "scan" /\ pc = "done" /\ kills >= 1
    /\ \E s \in Shards : Len(shardFiles[s]) > Cardinality(Range(shardFiles[s]))
    /\ Len(outFile) = Cardinality(storedSet)

\* ---- C39 ----
\* C39: for the same report and label table, the delegates kept by
\* filter-to-labeled when a non-empty name is required are among those kept
\* when presence in the label table suffices, so the strict setting drops at
\* least as many rows and at least as large a delegated total.
otherSetting == filteredReport(msInput, labelsFile, ~requireName)
strictOutput == IF requireName THEN labeledJson ELSE otherSetting
lenientOutput == IF requireName THEN otherSetting ELSE labeledJson
keptRows(rep) ==
    {[delegate |-> rep.delegates[i].delegate, count |-> rep.delegates[i].count] :
        i \in 1..Len(rep.delegates)}
filterDone == prog = "filter" /\ pc \in {"jsonWritten", "done"}

strictWithinLenient(strict, lenient) ==
    /\ keptRows(strict) \subseteq keptRows(lenient)
    /\ strict.uniqueDelegates <= lenient.uniqueDelegates
    /\ strict.dropped.uniqueDelegates >= lenient.dropped.uniqueDelegates
    /\ strict.dropped.currentlyDelegated >= lenient.dropped.currentlyDelegated

C39_StrictKeepsSubsetOfLenient ==
    filterDone =>
        LET other == otherSetting
        IN IF requireName THEN strictWithinLenient(labeledJson, other)
           ELSE strictWithinLenient(other, labeledJson)

\* A run in which the two settings differ: a listed delegate without a
\* usable name is kept by the lenient setting only.
C39_Witness ==
    /\ filterDone /\ requireName
    /\ keptRows(strictOutput) # keptRows(lenientOutput)
    /\ keptRows(strictOutput) # {}
    /\ strictOutput.dropped.currentlyDelegated > lenientOutput.dropped.currentlyDelegated

\* ---- C40 ----
\* C40: in relabel-by-group the count, the member count and the category of
\* every resulting group are the same for every ordering of the delegate
\* rows of the input report.
Orderings(n) == {f \in [1..n -> 1..n] : \A i, j \in 1..n : f[i] = f[j] => i = j}
reordered(rows, f) == [i \in 1..Len(rows) |-> rows[f[i]]]
groupFigures(rows) ==
    LET g == groupLoop(rows, labelMap, unlabeledMode, Len(rows))
    IN {[delegate |-> key, count |-> g.groups[key].count,
         members |-> g.groups[key].members,
         category |-> g.groups[key].category] : key \in DOMAIN g.groups}
writtenFigures ==
    {[delegate |-> groupsOut[i].delegate, count |-> groupsOut[i].count,
      members |-> groupsOut[i].members, category |-> groupsOut[i].category] :
        i \in 1..Len(groupsOut)}

C40_GroupFiguresOrderIndependent ==
    (prog = "relabel" /\ pc = "jsonWritten") =>
        \A f \in Orderings(Len(msInput.delegates)) :
            groupFigures(reordered(msInput.delegates, f)) = writtenFigures

\* Two rows of one group with different categories, written as "Mixed".
C40_Witness ==
    /\ prog = "relabel" /\ pc = "jsonWritten"
    /\ Len(msInput.delegates) = 2 /\ msInput.delegates[1] # msInput.delegates[2]
    /\ \E r \in writtenFigures : r.members = 2 /\ r.category = "Mixed"

Init ==
    \/ InitScan \/ InitMap \/ InitMs \/ InitRpc \/ InitStore \/ InitMerge
    \/ InitFilter \/ InitRelabel \/ InitAuths \/ InitPaging \/ InitHist
    \/ InitParse \/ InitStart \/ InitRlp
Next ==
    \/ NextScan \/ NextMap \/ NextMs \/ NextRpc \/ NextStore \/ NextMerge
    \/ NextFilter \/ NextRelabel \/ NextAuths \/ NextPaging \/ NextParse
    \/ NextStart \/ NextRlp
Spec == Init /\ [][Next]_vars

\* One program at a time.
SpecScan == InitScan /\ [][NextScan]_vars
SpecMs == InitMs /\ [][NextMs]_vars

SpecHist == InitHist /\ [][NextMs]_vars

SpecParse == InitParse /\ [][NextParse]_vars

SpecStart == InitStart /\ [][NextStart]_vars
SpecMap == InitMap /\ [][NextMap]_vars
SpecRpc == InitRpc /\ [][NextRpc]_vars
SpecStore == InitStore /\ [][NextStore]_vars
SpecMerge == InitMerge /\ [][NextMerge]_vars
SpecFilter == InitFilter /\ [][NextFilter]_vars
SpecRelabel == InitRelabel /\ [][NextRelabel]_vars

\* relabel-by-group over label tables made for grouping: two delegates under
\* one name with different categories, and a listed delegate without a name.
GroupingLabels ==
    {[address |-> DelegateXUpper, name |-> NameA, category |-> "cex"],
     [address |-> DelegateY, name |-> NameA, category |-> "dex"],
     [address |-> DelegateY, name |-> NoName, category |-> "cex"]}

InitRegroup ==
    /\ InitRelabel
    /\ labelsFile \in SeqsUpTo(GroupingLabels, MaxLabels)
    /\ labeledJson = NoFile

SpecRegroup == InitRegroup /\ [][NextRelabel]_vars
SpecAuths == InitAuths /\ [][NextAuths]_vars
SpecPaging == InitPaging /\ [][NextPaging]_vars

\* Every step of the running process is eventually taken; kills and failing
\* requests are not forced.
SpecPagingFair ==
    /\ SpecPaging
    /\ WF_vars(Request) /\ WF_vars(Respond) /\ WF_vars(ProcessAuth)
    /\ WF_vars(EndPage) /\ WF_vars(BeginStateWrite) /\ WF_vars(EndStateWrite)
    /\ WF_vars(NextPageOrStop) /\ WF_vars(Finalize) /\ WF_vars(RestartScan)
    /\ WF_vars(RetryAfterBackoff)

\* The two checkpointed programs.
InitCkpt == InitScan \/ InitMs
NextCkpt == NextScan \/ NextMs
SpecCkpt == InitCkpt /\ [][NextCkpt]_vars

====
